---- MODULE Spec2Model ----
(***************************************************************************)
(* InnoStart Pro: the AI routes (server/routes/ai.js), the business routes *)
(* (server/routes/business.js), the Gemini service and the database        *)
(* schema, as a state machine over the rows of business_ideas,             *)
(* business_plans, chat_conversations and chat_messages.                   *)
(*                                                                         *)
(* Texts are TLA+ strings, read character by character with SubSeq.        *)
(* JavaScript values are tagged records, so that JSON.parse, the || chains *)
(* and formatObjectToText are computed the way the code computes them.     *)
(***************************************************************************)
EXTENDS Integers, Sequences, FiniteSets, TLC

----------------------------------------------------------------------------
(* JavaScript values *)

Undefined == [t |-> "undefined"]
Null == [t |-> "null"]
Str(s) == [t |-> "string", s |-> s]
Num(n) == [t |-> "number", n |-> n]
Bool(b) == [t |-> "boolean", b |-> b]
\* a: the elements, in order
Arr(a) == [t |-> "array", a |-> a]
\* o: the own properties [k |-> name, v |-> value], in insertion order
Obj(o) == [t |-> "object", o |-> o]

\* typeof v === 'object' && v !== null
IsObject(v) == v.t \in {"array", "object"}

\* ToBoolean
Truthy(v) ==
  CASE v.t = "undefined" -> FALSE
    [] v.t = "null" -> FALSE
    [] v.t = "string" -> v.s # ""
    [] v.t = "number" -> v.n # 0
    [] v.t = "boolean" -> v.b
    [] OTHER -> TRUE

\* a || b
Or(a, b) == IF Truthy(a) THEN a ELSE b

\* the character of s at position i (1-based)
Ch(s, i) == SubSeq(s, i, i)

\* s.startsWith(p) at position i
StartsWithAt(s, i, p) == i + Len(p) - 1 <= Len(s) /\ SubSeq(s, i, i + Len(p) - 1) = p

DigitChars == "0123456789"
LowerChars == "abcdefghijklmnopqrstuvwxyz"
UpperChars == "ABCDEFGHIJKLMNOPQRSTUVWXYZ"

IsDigit(c) == \E i \in 1..Len(DigitChars) : Ch(DigitChars, i) = c
DigitVal(c) == (CHOOSE i \in 1..Len(DigitChars) : Ch(DigitChars, i) = c) - 1
IsUpper(c) == \E i \in 1..Len(UpperChars) : Ch(UpperChars, i) = c
IsLower(c) == \E i \in 1..Len(LowerChars) : Ch(LowerChars, i) = c
ToUpper(c) ==
  IF IsLower(c) THEN Ch(UpperChars, CHOOSE i \in 1..Len(LowerChars) : Ch(LowerChars, i) = c)
  ELSE c

\* white space of String.prototype.trim and of the regular expressions' \s
\* (the texts of the model hold no other white space than these four)
IsSpace(c) == c \in {" ", "\n", "\t", "\r"}

RECURSIVE SkipWs(_, _)
\* the first position at or after i that holds no white space
SkipWs(s, i) == IF i <= Len(s) /\ IsSpace(Ch(s, i)) THEN SkipWs(s, i + 1) ELSE i

RECURSIVE SkipWsBack(_, _)
\* the last position at or before i that holds no white space
SkipWsBack(s, i) == IF i >= 1 /\ IsSpace(Ch(s, i)) THEN SkipWsBack(s, i - 1) ELSE i

\* String.prototype.trim
Trim(s) == SubSeq(s, SkipWs(s, 1), SkipWsBack(s, Len(s)))

RECURSIVE NatToString(_)
NatToString(n) ==
  IF n < 10 THEN Ch(DigitChars, n + 1)
  ELSE NatToString(n \div 10) \o Ch(DigitChars, (n % 10) + 1)

\* Number.prototype.toString for an integer
NumberToString(n) == IF n < 0 THEN "-" \o NatToString(0 - n) ELSE NatToString(n)

RECURSIVE Join(_, _)
\* Array.prototype.join for an array of strings
Join(parts, sep) ==
  IF Len(parts) = 0 THEN ""
  ELSE IF Len(parts) = 1 THEN parts[1]
  ELSE parts[1] \o sep \o Join(Tail(parts), sep)

RECURSIVE ToStr(_)
\* String(v), also the conversion of ${v} in a template literal
ToStr(v) ==
  CASE v.t = "undefined" -> "undefined"
    [] v.t = "null" -> "null"
    [] v.t = "string" -> v.s
    [] v.t = "number" -> NumberToString(v.n)
    [] v.t = "boolean" -> (IF v.b THEN "true" ELSE "false")
    [] v.t = "array" ->
         Join([i \in 1..Len(v.a) |->
                 IF v.a[i].t \in {"null", "undefined"} THEN "" ELSE ToStr(v.a[i])], ",")
    [] OTHER -> "[object Object]"

\* obj?.key for a property name that no prototype defines: undefined unless
\* obj is a plain object with that own property
Get(obj, key) ==
  IF obj.t = "object" /\ \E i \in 1..Len(obj.o) : obj.o[i].k = key
  THEN obj.o[CHOOSE i \in 1..Len(obj.o) : obj.o[i].k = key].v
  ELSE Undefined

\* obj[key] = v on a plain object: an existing property keeps its place
Put(o, key, v) ==
  IF \E i \in 1..Len(o) : o[i].k = key
  THEN [i \in 1..Len(o) |-> IF o[i].k = key THEN [k |-> key, v |-> v] ELSE o[i]]
  ELSE Append(o, [k |-> key, v |-> v])

\* Object.entries(v) of an object or an array (an array's keys are its indices)
Entries(v) ==
  IF v.t = "array" THEN [i \in 1..Len(v.a) |-> [k |-> NatToString(i - 1), v |-> v.a[i]]]
  ELSE v.o

----------------------------------------------------------------------------
(* JSON.parse, by recursive descent.  The texts of the model write numbers *)
(* as integers and use only the escapes \" \\ \/ \n \t \r; an object's     *)
(* keys are not array indices, so insertion order is enumeration order.    *)

ParseFail == [ok |-> FALSE, v |-> Undefined, i |-> 0]
ParseOk(v, i) == [ok |-> TRUE, v |-> v, i |-> i]

\* white space of the JSON grammar
IsJsonWs(c) == c \in {" ", "\n", "\t", "\r"}

RECURSIVE SkipJsonWs(_, _)
SkipJsonWs(s, i) == IF i <= Len(s) /\ IsJsonWs(Ch(s, i)) THEN SkipJsonWs(s, i + 1) ELSE i

Unescape(e) ==
  CASE e = "n" -> "\n"
    [] e = "t" -> "\t"
    [] e = "r" -> "\r"
    [] OTHER -> e

RECURSIVE ScanString(_, _, _)
\* the string literal whose opening quote is at i - 1; acc is what it holds so far
ScanString(s, i, acc) ==
  IF i > Len(s) THEN ParseFail
  ELSE IF Ch(s, i) = "\"" THEN ParseOk(Str(acc), i + 1)
  ELSE IF Ch(s, i) = "\\" THEN
    IF i + 1 <= Len(s) /\ Ch(s, i + 1) \in {"\"", "\\", "/", "n", "t", "r"}
    THEN ScanString(s, i + 2, acc \o Unescape(Ch(s, i + 1)))
    ELSE ParseFail
  ELSE IF Ch(s, i) \in {"\n", "\t", "\r"} THEN ParseFail
  ELSE ScanString(s, i + 1, acc \o Ch(s, i))

RECURSIVE ScanDigits(_, _, _)
\* the digits from i on, as a number continuing n
ScanDigits(s, i, n) ==
  IF i <= Len(s) /\ IsDigit(Ch(s, i)) THEN ScanDigits(s, i + 1, 10 * n + DigitVal(Ch(s, i)))
  ELSE ParseOk(Num(n), i)

\* int of the JSON grammar at i: 0, or a digit 1-9 and more digits
ScanInt(s, i) ==
  IF i > Len(s) \/ ~IsDigit(Ch(s, i)) THEN ParseFail
  ELSE IF Ch(s, i) = "0" THEN ParseOk(Num(0), i + 1)
  ELSE ScanDigits(s, i, 0)

ScanNumber(s, i) ==
  IF Ch(s, i) = "-"
  THEN LET r == ScanInt(s, i + 1) IN IF r.ok THEN ParseOk(Num(0 - r.v.n), r.i) ELSE ParseFail
  ELSE ScanInt(s, i)

RECURSIVE ParseValue(_, _)
RECURSIVE ParseMembers(_, _, _)
RECURSIVE ParseElements(_, _, _)

\* the members of an object from i on (white space skipped); o: those read so far
ParseMembers(s, i, o) ==
  IF i > Len(s) \/ Ch(s, i) # "\"" THEN ParseFail
  ELSE LET key == ScanString(s, i + 1, "") IN
    IF ~key.ok THEN ParseFail
    ELSE LET colon == SkipJsonWs(s, key.i) IN
      IF colon > Len(s) \/ Ch(s, colon) # ":" THEN ParseFail
      ELSE LET val == ParseValue(s, SkipJsonWs(s, colon + 1)) IN
        IF ~val.ok THEN ParseFail
        ELSE LET next == SkipJsonWs(s, val.i)
                 o2 == Put(o, key.v.s, val.v)
             IN IF next > Len(s) THEN ParseFail
                ELSE IF Ch(s, next) = "}" THEN ParseOk(Obj(o2), next + 1)
                ELSE IF Ch(s, next) = "," THEN ParseMembers(s, SkipJsonWs(s, next + 1), o2)
                ELSE ParseFail

\* the elements of an array from i on (white space skipped); a: those read so far
ParseElements(s, i, a) ==
  LET val == ParseValue(s, i) IN
    IF ~val.ok THEN ParseFail
    ELSE LET next == SkipJsonWs(s, val.i)
             a2 == Append(a, val.v)
         IN IF next > Len(s) THEN ParseFail
            ELSE IF Ch(s, next) = "]" THEN ParseOk(Arr(a2), next + 1)
            ELSE IF Ch(s, next) = "," THEN ParseElements(s, SkipJsonWs(s, next + 1), a2)
            ELSE ParseFail

\* the JSON value that starts at i (white space skipped)
ParseValue(s, i) ==
  IF i > Len(s) THEN ParseFail
  ELSE IF Ch(s, i) = "{" THEN
    LET j == SkipJsonWs(s, i + 1) IN
      IF j <= Len(s) /\ Ch(s, j) = "}" THEN ParseOk(Obj(<<>>), j + 1)
      ELSE ParseMembers(s, j, <<>>)
  ELSE IF Ch(s, i) = "[" THEN
    LET j == SkipJsonWs(s, i + 1) IN
      IF j <= Len(s) /\ Ch(s, j) = "]" THEN ParseOk(Arr(<<>>), j + 1)
      ELSE ParseElements(s, j, <<>>)
  ELSE IF Ch(s, i) = "\"" THEN ScanString(s, i + 1, "")
  ELSE IF StartsWithAt(s, i, "true") THEN ParseOk(Bool(TRUE), i + 4)
  ELSE IF StartsWithAt(s, i, "false") THEN ParseOk(Bool(FALSE), i + 5)
  ELSE IF StartsWithAt(s, i, "null") THEN ParseOk(Null, i + 4)
  ELSE ScanNumber(s, i)

\* JSON.parse(s): ok is FALSE where JSON.parse throws a SyntaxError
JSONparse(s) ==
  LET r == ParseValue(s, SkipJsonWs(s, 1)) IN
    IF r.ok /\ SkipJsonWs(s, r.i) = Len(s) + 1 THEN [ok |-> TRUE, v |-> r.v]
    ELSE [ok |-> FALSE, v |-> Undefined]

RECURSIVE StringifyValue(_)
\* JSON.stringify(v) of a value JSON.parse can return (no escapes needed in
\* the strings of the model beyond the quote and the backslash)
RECURSIVE QuoteString(_)
QuoteString(s) ==
  IF s = "" THEN ""
  ELSE (CASE Head(s) = "\"" -> "\\\""
          [] Head(s) = "\\" -> "\\\\"
          [] Head(s) = "\n" -> "\\n"
          [] Head(s) = "\t" -> "\\t"
          [] Head(s) = "\r" -> "\\r"
          [] OTHER -> Head(s)) \o QuoteString(Tail(s))

StringifyValue(v) ==
  CASE v.t = "null" -> "null"
    [] v.t = "string" -> "\"" \o QuoteString(v.s) \o "\""
    [] v.t = "number" -> NumberToString(v.n)
    [] v.t = "boolean" -> (IF v.b THEN "true" ELSE "false")
    [] v.t = "array" ->
         "[" \o Join([i \in 1..Len(v.a) |-> StringifyValue(v.a[i])], ",") \o "]"
    [] OTHER ->
         "{" \o Join([i \in 1..Len(v.o) |->
                        "\"" \o QuoteString(v.o[i].k) \o "\":" \o StringifyValue(v.o[i].v)], ",")
             \o "}"

----------------------------------------------------------------------------
(* GET /business-plan/:id: the two formatting helpers *)

\* the bullet U+2022 of formatTable; module text is ASCII, so it is written *
Bullet == "*"

RECURSIVE SpaceCapitals(_)
\* key.replace(/([A-Z])/g, ' $1')
SpaceCapitals(s) ==
  IF s = "" THEN ""
  ELSE (IF IsUpper(Head(s)) THEN " " \o Head(s) ELSE Head(s)) \o SpaceCapitals(Tail(s))

\* s.replace(/^./, str => str.toUpperCase()): . matches no line terminator
UpperFirst(s) ==
  IF s = "" \/ Head(s) \in {"\n", "\r"} THEN s ELSE ToUpper(Head(s)) \o Tail(s)

FormatKey(key) == UpperFirst(SpaceCapitals(key))

RECURSIVE IndentRest(_)
IndentRest(s) ==
  IF s = "" THEN ""
  ELSE (IF Head(s) = "\n" THEN "\n  " ELSE Head(s)) \o IndentRest(Tail(s))

\* s.split('\n').map(line => `  ${line}`).join('\n')
IndentLines(s) == "  " \o IndentRest(s)

IsNumberOrString(v) == v.t \in {"number", "string"}

\* Object.values(v) of an object or an array
Values(v) == IF v.t = "array" THEN v.a ELSE [i \in 1..Len(v.o) |-> v.o[i].v]

formatTable(title, data) ==
  IF data.t = "array"
  THEN title \o ":\n"
         \o Join([i \in 1..Len(data.a) |-> Bullet \o " " \o ToStr(data.a[i])], "\n")
  ELSE IF data.t = "object"
  THEN IF \A i \in 1..Len(data.o) : IsNumberOrString(data.o[i].v)
       THEN title \o ":\n"
              \o Join([i \in 1..Len(data.o) |->
                         Bullet \o " " \o data.o[i].k \o ": " \o ToStr(data.o[i].v)], "\n")
       ELSE title \o ":\n"
              \o Join([i \in 1..Len(data.o) |->
                   LET key == data.o[i].k
                       value == data.o[i].v
                   IN IF IsObject(value)
                      THEN "  " \o key \o ":\n"
                             \o Join([j \in 1..Len(Entries(value)) |->
                                        "    " \o Entries(value)[j].k \o ": "
                                               \o ToStr(Entries(value)[j].v)], "\n")
                      ELSE "  " \o key \o ": " \o ToStr(value)], "\n")
  ELSE title \o ": " \o ToStr(data)

\* every value, strings too, rendered as JSON text
formatObjectToTextStringify(obj) == Str(StringifyValue(obj))
RECURSIVE formatObjectToText(_)
\* a JavaScript string for every value: the value itself when it is a string
formatObjectToText(obj) ==
  IF obj.t = "string" THEN obj
  ELSE IF obj.t = "array"
  THEN Str(Join([i \in 1..Len(obj.a) |-> ToStr(formatObjectToText(obj.a[i]))], "\n"))
  ELSE IF obj.t = "object"
  THEN Str(Join([i \in 1..Len(obj.o) |->
          LET formattedKey == FormatKey(obj.o[i].k)
              value == obj.o[i].v
          IN IF IsObject(value)
             THEN IF value.t = "array"
                     \/ \E j \in 1..Len(Values(value)) : IsNumberOrString(Values(value)[j])
                  THEN formatTable(formattedKey, value)
                  ELSE formattedKey \o ":\n"
                         \o IndentLines(ToStr(formatObjectToText(value)))
             ELSE formattedKey \o ": " \o ToStr(value)], "\n\n"))
  ELSE Str(ToStr(Or(obj, Str(""))))

----------------------------------------------------------------------------
(* geminiService: what it makes of the model's completion text *)

RECURSIVE IndexOf(_, _, _)
\* the first position at or after i where s holds the character c, else 0
IndexOf(s, c, i) ==
  IF i > Len(s) THEN 0 ELSE IF Ch(s, i) = c THEN i ELSE IndexOf(s, c, i + 1)

RECURSIVE LastIndexOf(_, _, _)
\* the last position at or before i where s holds the character c, else 0
LastIndexOf(s, c, i) ==
  IF i < 1 THEN 0 ELSE IF Ch(s, i) = c THEN i ELSE LastIndexOf(s, c, i - 1)

\* text.match(/\{[\s\S]*\}/): from the first { to the last } after it
MatchObject(text) ==
  LET first == IndexOf(text, "{", 1)
      last == LastIndexOf(text, "}", Len(text))
  IN IF first # 0 /\ last > first
     THEN [found |-> TRUE, text |-> SubSeq(text, first, last)]
     ELSE [found |-> FALSE, text |-> ""]

RECURSIVE SplitLines(_)
\* text.split('\n')
SplitLines(text) ==
  LET n == IndexOf(text, "\n", 1) IN
    IF n = 0 THEN <<text>>
    ELSE <<SubSeq(text, 1, n - 1)>> \o SplitLines(SubSeq(text, n + 1, Len(text)))

RECURSIVE SkipDigits(_, _)
SkipDigits(s, i) == IF i <= Len(s) /\ IsDigit(Ch(s, i)) THEN SkipDigits(s, i + 1) ELSE i

\* the length of the match of /^\d+\.\s+/ in line, 0 when there is none
NumberingLength(line) ==
  LET dot == SkipDigits(line, 1)
      rest == SkipWs(line, dot + 1)
  IN IF dot > 1 /\ dot <= Len(line) /\ Ch(line, dot) = "." /\ rest > dot + 1
     THEN rest - 1 ELSE 0

\* line.match(/^\d+\.\s+[A-Z\s]+/): after the numbering a capital follows,
\* or the numbering's white space is two characters or more (\s+ gives one back)
IsNumberedHeader(line) ==
  LET n == NumberingLength(line)
      dot == SkipDigits(line, 1)
  IN n > 0 /\ ((n < Len(line) /\ IsUpper(Ch(line, n + 1))) \/ n - dot >= 2)

\* line.match(/^[A-Z\s]+:$/)
IsColonHeader(line) ==
  /\ Len(line) >= 2
  /\ Ch(line, Len(line)) = ":"
  /\ \A i \in 1..(Len(line) - 1) : IsUpper(Ch(line, i)) \/ IsSpace(Ch(line, i))

\* s.replace(':', ''): the first colon only
RemoveFirstColon(s) ==
  LET n == IndexOf(s, ":", 1) IN
    IF n = 0 THEN s ELSE SubSeq(s, 1, n - 1) \o SubSeq(s, n + 1, Len(s))

\* line.replace(/^\d+\.\s+/, '').replace(':', '')
HeaderName(line) ==
  RemoveFirstColon(SubSeq(line, NumberingLength(line) + 1, Len(line)))

RECURSIVE ParseSectionLines(_, _, _, _)
\* the loop of parseBusinessPlanSections over lines; sections, currentSection
\* and currentContent as the loop holds them
ParseSectionLines(lines, sections, currentSection, currentContent) ==
  IF lines = <<>>
  THEN IF currentSection # ""
       THEN Put(sections, currentSection, Str(Join(currentContent, "\n")))
       ELSE sections
  ELSE LET line == Trim(Head(lines)) IN
    IF IsNumberedHeader(line) \/ IsColonHeader(line)
    THEN ParseSectionLines(Tail(lines),
           IF currentSection # ""
           THEN Put(sections, currentSection, Str(Join(currentContent, "\n")))
           ELSE sections,
           HeaderName(line), <<>>)
    ELSE IF line # "" /\ currentSection # ""
    THEN ParseSectionLines(Tail(lines), sections, currentSection, Append(currentContent, line))
    ELSE ParseSectionLines(Tail(lines), sections, currentSection, currentContent)

parseBusinessPlanSections(text) == Obj(ParseSectionLines(SplitLines(text), <<>>, "", <<>>))

\* the same loop, line for line
parseFinancialProjections(text) == Obj(ParseSectionLines(SplitLines(text), <<>>, "", <<>>))

\* what generateBusinessPlan returns for the completion text
generateBusinessPlan(businessIdea, text) ==
  LET jsonMatch == MatchObject(text)
      fallback == Obj(<<[k |-> "title", v |-> Str(businessIdea.title \o " - Business Plan")],
                        [k |-> "content", v |-> Str(text)],
                        [k |-> "sections", v |-> parseBusinessPlanSections(text)]>>)
  IN IF jsonMatch.found /\ JSONparse(jsonMatch.text).ok
     THEN JSONparse(jsonMatch.text).v
     ELSE fallback

\* what generateFinancialProjection returns for the completion text
generateFinancialProjection(businessIdea, text) ==
  LET jsonMatch == MatchObject(text)
      fallback == Obj(<<[k |-> "title",
                         v |-> Str(businessIdea.title \o " - Financial Projections")],
                        [k |-> "content", v |-> Str(text)],
                        [k |-> "projections", v |-> parseFinancialProjections(text)]>>)
  IN IF jsonMatch.found /\ JSONparse(jsonMatch.text).ok
     THEN JSONparse(jsonMatch.text).v
     ELSE fallback

----------------------------------------------------------------------------
(* geminiService: business ideas from a completion text *)

\* NaN: a number that || takes for false and that equals no integer
NaN == [t |-> "number", n |-> 0, nan |-> TRUE]

\* text.match(/\[[\s\S]*\]/): from the first [ to the last ] after it
MatchArray(text) ==
  LET first == IndexOf(text, "[", 1)
      last == LastIndexOf(text, "]", Len(text))
  IN IF first # 0 /\ last > first
     THEN [found |-> TRUE, text |-> SubSeq(text, first, last)]
     ELSE [found |-> FALSE, text |-> ""]

RECURSIVE Find(_, _, _)
\* the first position at or after i where sub begins in s, else 0
Find(s, sub, i) ==
  IF i + Len(sub) - 1 > Len(s) THEN 0
  ELSE IF StartsWithAt(s, i, sub) THEN i ELSE Find(s, sub, i + 1)

\* s.includes(sub)
Includes(s, sub) == Find(s, sub, 1) # 0

\* s.replace(sub, ''): the first occurrence only
RemoveFirst(s, sub) ==
  LET n == Find(s, sub, 1) IN
    IF n = 0 THEN s ELSE SubSeq(s, 1, n - 1) \o SubSeq(s, n + Len(sub), Len(s))

\* line.replace(/^(Business Title:|1\.)\s*/, '')
RemoveTitlePrefix(line) ==
  LET n == IF StartsWithAt(line, 1, "Business Title:") THEN Len("Business Title:")
           ELSE IF StartsWithAt(line, 1, "1.") THEN 2 ELSE 0
  IN IF n = 0 THEN line ELSE SubSeq(line, SkipWs(line, n + 1), Len(line))

IsDigitOrComma(c) == IsDigit(c) \/ c = ","

RECURSIVE SkipDigitsAndCommas(_, _)
SkipDigitsAndCommas(s, i) ==
  IF i <= Len(s) /\ IsDigitOrComma(Ch(s, i)) THEN SkipDigitsAndCommas(s, i + 1) ELSE i

RECURSIVE FirstDigitOrComma(_, _)
FirstDigitOrComma(s, i) ==
  IF i > Len(s) THEN 0
  ELSE IF IsDigitOrComma(Ch(s, i)) THEN i ELSE FirstDigitOrComma(s, i + 1)

\* line.match(/\$?([0-9,]+)/): the capture group of the first match
MatchAmount(line) ==
  LET first == FirstDigitOrComma(line, 1) IN
    IF first = 0 THEN [found |-> FALSE, text |-> ""]
    ELSE [found |-> TRUE, text |-> SubSeq(line, first, SkipDigitsAndCommas(line, first) - 1)]

\* parseInt(s) for a text of digits and commas: the leading digits, NaN when
\* there are none
ParseInt(s) ==
  LET end == SkipDigits(s, 1) IN
    IF end = 1 THEN NaN ELSE ScanDigits(s, 1, 0).v

\* investment ? parseInt(investment[1].replace(',', '')) : 0
ParseAmount(line) ==
  IF MatchAmount(line).found THEN ParseInt(RemoveFirst(MatchAmount(line).text, ",")) ELSE Num(0)

RECURSIVE ParseIdeaLines(_, _, _)
\* the loop of parseBusinessIdeas over lines; ideas and currentIdea as the
\* loop holds them (currentIdea: the properties of the object)
ParseIdeaLines(lines, ideas, currentIdea) ==
  IF lines = <<>>
  THEN IF Len(currentIdea) > 0 THEN Append(ideas, Obj(currentIdea)) ELSE ideas
  ELSE LET line == Trim(Head(lines)) IN
    IF Includes(line, "Business Title:") \/ Includes(line, "1.")
    THEN ParseIdeaLines(Tail(lines),
           IF Len(currentIdea) > 0 THEN Append(ideas, Obj(currentIdea)) ELSE ideas,
           <<[k |-> "title", v |-> Str(RemoveTitlePrefix(line))]>>)
    ELSE IF Includes(line, "Description:")
    THEN ParseIdeaLines(Tail(lines), ideas,
           Put(currentIdea, "description", Str(Trim(RemoveFirst(line, "Description:")))))
    ELSE IF Includes(line, "Target Market:")
    THEN ParseIdeaLines(Tail(lines), ideas,
           Put(currentIdea, "targetMarket", Str(Trim(RemoveFirst(line, "Target Market:")))))
    ELSE IF Includes(line, "Investment:")
    THEN ParseIdeaLines(Tail(lines), ideas,
           Put(currentIdea, "initialInvestment", ParseAmount(line)))
    ELSE IF Includes(line, "Revenue:")
    THEN ParseIdeaLines(Tail(lines), ideas,
           Put(currentIdea, "expectedRevenue", ParseAmount(line)))
    ELSE ParseIdeaLines(Tail(lines), ideas, currentIdea)

parseBusinessIdeas(text) == Arr(ParseIdeaLines(SplitLines(text), <<>>, <<>>))

\* what generateBusinessIdeas does with the completion text: it returns a
\* value, or throws (JSON.parse of the captured text throws inside the try
\* whose catch throws 'Failed to generate business ideas')
generateBusinessIdeas(text) ==
  LET jsonMatch == MatchArray(text) IN
    IF jsonMatch.found
    THEN IF JSONparse(jsonMatch.text).ok
         THEN [threw |-> FALSE, v |-> JSONparse(jsonMatch.text).v]
         ELSE [threw |-> TRUE, v |-> Str("Failed to generate business ideas")]
    ELSE [threw |-> FALSE, v |-> parseBusinessIdeas(text)]

----------------------------------------------------------------------------
(* The database and the last response *)

VARIABLES
  ideas,      \* business_ideas: id -> [user_id, title]
  plans,      \* business_plans: id -> row; a section column holds Null or a
              \* string, financial_projections (a JSON column) any JSON value;
              \* updated_at counts the row's updates (the order of its timestamps)
  planSeq,    \* AUTO_INCREMENT of business_plans: the next id
  conversations,  \* chat_conversations: id -> [user_id]
  convSeq,    \* AUTO_INCREMENT of chat_conversations: the next id
  messages,   \* chat_messages, in insertion order: [conversation_id, role, content]
  resp,       \* the last response: [op, user, req, status, body]
  branch,     \* the arm the last GET /business-plan/:id took at the if that
              \* selects the format: "new", "old", or "none" before any read
  calls,      \* number of calls made to the generative model so far
  lastCall,   \* what the last call to the generative model was given (and,
              \* where the completion is parsed, its outcome)
  pending,    \* BusinessPlan page: the generated section it has not saved yet
  inflight    \* requests whose handler is suspended at an await, in order of
              \* arrival: [op, user, pc, ...]; empty where handlers are
              \* taken as one step

planVars == <<ideas, plans, planSeq>>
chatVars == <<conversations, convSeq, messages>>
vars == <<ideas, plans, planSeq, conversations, convSeq, messages, resp, branch, calls,
          lastCall, pending, inflight>>

\* users 1..NumUsers hold valid tokens (authenticateToken sets req.user)
NumUsers == 2
Users == 1..NumUsers

Sections ==
  <<"executive_summary", "market_analysis", "financial_projections",
    "marketing_strategy", "operations_plan", "risk_analysis">>
SectionNames == {Sections[i] : i \in 1..Len(Sections)}
OtherSections == SectionNames \ {"executive_summary"}

NoResponse == [op |-> "none", user |-> 0, req |-> [id |-> 0], status |-> 0, body |-> [error |-> ""]]
NoCall == [op |-> "none"]
NoPending == [user |-> 0, id |-> 0, section |-> "", content |-> ""]

Response(op, u, req, status, body) ==
  [op |-> op, user |-> u, req |-> req, status |-> status, body |-> body]

PlanRow(u, idea, title, es, ma, fp, ms, op, ra) ==
  [user_id |-> u, business_idea_id |-> idea, title |-> title,
   executive_summary |-> es, market_analysis |-> ma, financial_projections |-> fp,
   marketing_strategy |-> ms, operations_plan |-> op, risk_analysis |-> ra,
   status |-> "draft", updated_at |-> 0]

\* the lookup without its user_id condition
OwnIdeaById(u, id) == id \in DOMAIN ideas
\* SELECT * FROM business_ideas WHERE id = ? AND user_id = ?
OwnIdea(u, id) == id \in DOMAIN ideas /\ ideas[id].user_id = u
\* SELECT * FROM business_plans WHERE id = ? AND user_id = ?
OwnPlan(u, id) == id \in DOMAIN plans /\ plans[id].user_id = u

----------------------------------------------------------------------------
(* GET /business-plan/:id: format detection and the normalized plan *)

\* plan.market_analysis || plan.financial_projections || ... (a value)
hasNewFormat(plan) ==
  Or(Or(Or(Or(plan.market_analysis, plan.financial_projections),
           plan.marketing_strategy), plan.operations_plan), plan.risk_analysis)

\* plan.executive_summary && plan.executive_summary.trim().startsWith('{')
hasOldFormat(plan) ==
  IF Truthy(plan.executive_summary)
  THEN Bool(StartsWithAt(Trim(plan.executive_summary.s), 1, "{"))
  ELSE plan.executive_summary

\* if (hasNewFormat && !hasOldFormat)
TakesNewBranch(plan) == Truthy(hasNewFormat(plan)) /\ ~Truthy(hasOldFormat(plan))

\* the columns as stored, not flattened
NewFormatSectionsRaw(plan) == [sec \in SectionNames |-> Or(plan[sec], Str(""))]
NewFormatSections(plan) ==
  [sec \in SectionNames |-> formatObjectToText(Or(plan[sec], Str("")))]

\* the else arm without its catch arm: nothing is kept of a text that does
\* not parse
ParsedBusinessPlanNoFallback(plan) ==
  IF Truthy(plan.executive_summary) /\ JSONparse(plan.executive_summary.s).ok
  THEN JSONparse(plan.executive_summary.s).v
  ELSE Null
\* businessPlan of the else arm: the parsed executive_summary; the catch arm
\* is taken when JSON.parse throws and when Object.keys(null) throws
ParsedBusinessPlan(plan) ==
  IF Truthy(plan.executive_summary)
  THEN LET r == JSONparse(plan.executive_summary.s) IN
         IF r.ok /\ r.v.t # "null" THEN r.v
         ELSE Obj(<<[k |-> "title", v |-> Str(plan.title)],
                    [k |-> "content", v |-> plan.executive_summary]>>)
  ELSE Null

\* the legacy keys read with marketingStrategy for marketingSales
OldFormatSectionsStrategyKey(plan) ==
  LET businessPlan == ParsedBusinessPlan(plan)
      key == [executive_summary |-> "executiveSummary", market_analysis |-> "marketAnalysis",
              financial_projections |-> "financialProjections",
              marketing_strategy |-> "marketingStrategy",
              operations_plan |-> "operationsPlan", risk_analysis |-> "riskAnalysis"]
  IN [sec \in SectionNames |->
        formatObjectToText(
          IF sec = "executive_summary"
          THEN Or(Or(Get(businessPlan, key[sec]), Get(businessPlan, "content")), Str(""))
          ELSE Or(Get(businessPlan, key[sec]), Str("")))]
OldFormatSections(plan) ==
  LET businessPlan == ParsedBusinessPlan(plan) IN
    [executive_summary |->
       formatObjectToText(Or(Or(Get(businessPlan, "executiveSummary"),
                                Get(businessPlan, "content")), Str(""))),
     market_analysis |-> formatObjectToText(Or(Get(businessPlan, "marketAnalysis"), Str(""))),
     financial_projections |->
       formatObjectToText(Or(Get(businessPlan, "financialProjections"), Str(""))),
     marketing_strategy |-> formatObjectToText(Or(Get(businessPlan, "marketingSales"), Str(""))),
     operations_plan |-> formatObjectToText(Or(Get(businessPlan, "operationsPlan"), Str(""))),
     risk_analysis |-> formatObjectToText(Or(Get(businessPlan, "riskAnalysis"), Str("")))]

formattedBusinessPlan(id, plan) ==
  [id |-> id, title |-> plan.title, business_idea_id |-> plan.business_idea_id,
   status |-> plan.status,
   sections |-> IF TakesNewBranch(plan) THEN NewFormatSections(plan)
                ELSE OldFormatSections(plan)]

GetBusinessPlan(u, id) ==
  /\ IF ~OwnPlan(u, id)
     THEN /\ resp' = Response("GET /ai/business-plan/:id", u, [id |-> id], 404,
                              [error |-> "Business plan not found"])
          /\ UNCHANGED branch
     ELSE IF ~OwnIdea(u, plans[id].business_idea_id)
     THEN /\ resp' = Response("GET /ai/business-plan/:id", u, [id |-> id], 404,
                              [error |-> "Related business idea not found"])
          /\ UNCHANGED branch
     ELSE /\ resp' = Response("GET /ai/business-plan/:id", u, [id |-> id], 200,
                              [businessIdea |-> ideas[plans[id].business_idea_id],
                               businessPlan |-> formattedBusinessPlan(id, plans[id])])
          /\ branch' = IF TakesNewBranch(plans[id]) THEN "new" ELSE "old"
  /\ UNCHANGED <<planVars, chatVars, calls, lastCall, pending, inflight>>

----------------------------------------------------------------------------
(* The generation routes.  A call to the generative model either fails     *)
(* (the service throws) or returns a completion text.                      *)

\* bound on the calls to the generative model in one behaviour
MaxModelCalls == 1
\* bound on the rows business_plans ever holds
MaxPlans == 2
\* bound on updated_at: the updates one row of business_plans takes
MaxUpdates == 1

ModelFails == [ok |-> FALSE, text |-> ""]
ModelReturns(text) == [ok |-> TRUE, text |-> text]

\* completions of the whole-plan prompt: the JSON asked for (its sections
\* strings, as the prompt words them), JSON inside prose, headed prose, and
\* JSON that does not parse
PlanCompletions ==
  {"{\"title\":\"T\",\"executiveSummary\":\"E\",\"marketAnalysis\":\"M\","
     \o "\"financialProjections\":{\"year1\":100},\"marketingSales\":\"S\","
     \o "\"operationsPlan\":\"O\",\"riskAnalysis\":\"R\"}",
   "Here is the plan: {\"executiveSummary\":\"{E}\",\"marketAnalysis\":\"M\"} Good luck",
   "1. EXECUTIVE SUMMARY\nOur shop\nMARKET ANALYSIS:\nLocal demand",
   "{\"executiveSummary\":\"E\", and so on}"}

\* completions of the single-section prompt: free text
SectionCompletions == {"Generated text", " {\"year1\": 100} "}

\* a parameter bound to a JSON column: the text must be JSON, and the driver
\* returns the stored value parsed
JsonColumn(text) == JSONparse(text)

\* POST /generate-business-plan: the row inserted for businessPlan
InsertedPlan(u, businessIdeaId, businessIdea, businessPlan) ==
  PlanRow(u, businessIdeaId,
    ToStr(Or(Get(businessPlan, "title"), Str(businessIdea.title \o " - Business Plan"))),
    Or(Or(Get(businessPlan, "executiveSummary"), Get(businessPlan, "executive_summary")),
       Str("")),
    Or(Or(Get(businessPlan, "marketAnalysis"), Get(businessPlan, "market_analysis")),
       Str("")),
    JsonColumn(StringifyValue(
      Or(Or(Get(businessPlan, "financialProjections"),
            Get(businessPlan, "financial_projections")), Obj(<<>>)))).v,
    Or(Or(Get(businessPlan, "marketingSales"), Get(businessPlan, "marketing_strategy")),
       Str("")),
    Or(Or(Get(businessPlan, "operationsPlan"), Get(businessPlan, "operations_plan")),
       Str("")),
    Or(Or(Get(businessPlan, "riskAnalysis"), Get(businessPlan, "risk_analysis")),
       Str("")))

\* POST /ai/generate-business-plan
GenerateBusinessPlan(u, businessIdeaId, outcome) ==
  LET op == "POST /ai/generate-business-plan"
      req == [businessIdeaId |-> businessIdeaId]
  IN
  \/ /\ ~OwnIdea(u, businessIdeaId)
     /\ resp' = Response(op, u, req, 404, [error |-> "Business idea not found"])
     /\ UNCHANGED <<planVars, calls, lastCall>>
  \/ /\ OwnIdea(u, businessIdeaId)
     /\ calls < MaxModelCalls
     /\ calls' = calls + 1
     /\ lastCall' = [op |-> op, businessIdea |-> ideas[businessIdeaId],
                     outcome |-> outcome]
     /\ IF ~outcome.ok
        THEN /\ resp' = Response(op, u, req, 500,
                                 [error |-> "Failed to generate business plan"])
             /\ UNCHANGED planVars
        ELSE /\ planSeq <= MaxPlans
             /\ LET businessPlan ==
                      generateBusinessPlan(ideas[businessIdeaId], outcome.text)
                IN /\ plans' = [id \in DOMAIN plans \cup {planSeq} |->
                                  IF id = planSeq
                                  THEN InsertedPlan(u, businessIdeaId,
                                                    ideas[businessIdeaId], businessPlan)
                                  ELSE plans[id]]
                   /\ resp' = Response(op, u, req, 200,
                                [message |-> "Business plan generated successfully",
                                 planId |-> planSeq, businessPlan |-> businessPlan])
             /\ planSeq' = planSeq + 1
             /\ UNCHANGED ideas
  /\ UNCHANGED <<chatVars, branch, pending, inflight>>

\* POST /ai/generate-financial-projection
GenerateFinancialProjection(u, businessIdeaId, outcome) ==
  LET op == "POST /ai/generate-financial-projection"
      req == [businessIdeaId |-> businessIdeaId]
  IN
  \/ /\ ~OwnIdea(u, businessIdeaId)
     /\ resp' = Response(op, u, req, 404, [error |-> "Business idea not found"])
     /\ UNCHANGED <<calls, lastCall>>
  \/ /\ OwnIdea(u, businessIdeaId)
     /\ calls < MaxModelCalls
     /\ calls' = calls + 1
     /\ lastCall' = [op |-> op, businessIdea |-> ideas[businessIdeaId],
                     outcome |-> outcome]
     /\ resp' = IF ~outcome.ok
                THEN Response(op, u, req, 500,
                              [error |-> "Failed to generate financial projection"])
                ELSE Response(op, u, req, 200,
                       [message |-> "Financial projection generated successfully",
                        projectionId |-> businessIdeaId,
                        financialProjection |->
                          generateFinancialProjection(ideas[businessIdeaId], outcome.text)])
  /\ UNCHANGED <<planVars, chatVars, branch, pending, inflight>>

\* the handler of POST /ai/generate-business-plan-section: resp, calls and
\* lastCall after it; it issues no INSERT and no UPDATE
SectionGeneration(u, businessIdeaId, section, outcome) ==
  LET op == "POST /ai/generate-business-plan-section"
      req == [businessIdeaId |-> businessIdeaId, section |-> section]
  IN
  \/ /\ ~OwnIdea(u, businessIdeaId)
     /\ resp' = Response(op, u, req, 404, [error |-> "Business idea not found"])
     /\ UNCHANGED <<calls, lastCall>>
  \/ /\ OwnIdea(u, businessIdeaId)
     /\ calls < MaxModelCalls
     /\ calls' = calls + 1
     /\ lastCall' = [op |-> op, businessIdea |-> ideas[businessIdeaId], section |-> section]
     /\ resp' = IF ~outcome.ok
                THEN Response(op, u, req, 500, [error |-> "Failed to generate section"])
                ELSE Response(op, u, req, 200,
                              [message |-> "Section generated successfully",
                               content |-> outcome.text])

\* POST /ai/generate-business-plan-section, called by any client
GenerateBusinessPlanSection(u, businessIdeaId, section, outcome) ==
  /\ SectionGeneration(u, businessIdeaId, section, outcome)
  /\ UNCHANGED <<planVars, chatVars, branch, pending, inflight>>

\* an UPDATE that rewrites the row from the request: the named column set,
\* the other section columns cleared
SectionUpdateWholeRow(u, id, section, content) ==
  /\ OwnPlan(u, id)
  /\ plans[id].updated_at < MaxUpdates
  /\ plans' = [plans EXCEPT ![id] =
                 [f \in DOMAIN plans[id] |->
                    IF f = section THEN Str(Trim(content))
                    ELSE IF f \in SectionNames THEN Null
                    ELSE IF f = "updated_at" THEN plans[id].updated_at + 1
                    ELSE plans[id][f]]]
  /\ resp' = Response("PUT /business/plans/:id/sections/:section", u,
                      [id |-> id, section |-> section], 200,
                      [message |-> "Business plan section updated successfully"])
\* a text an INT column stores as a number: digits (strict SQL mode refuses
\* other text)
IsDigits(s) == Len(s) >= 1 /\ \A i \in 1..Len(s) : IsDigit(Ch(s, i))

\* UPDATE business_plans SET ${section} = ?, updated_at = CURRENT_TIMESTAMP
\* on row, with content bound to the parameter: the path segment is the
\* column name. A text column takes the content; the JSON column takes JSON
\* only; an integer column takes the text of an integer that its foreign key
\* allows; a name that is no column fails. (The columns id, created_at and
\* updated_at are not drawn as path segments.)
SectionWrite(row, section, content) ==
  CASE section \in SectionNames \ {"financial_projections"} ->
         [ok |-> TRUE, row |-> [row EXCEPT ![section] = Str(content)]]
    [] section = "financial_projections" ->
         IF JsonColumn(content).ok
         THEN [ok |-> TRUE, row |-> [row EXCEPT ![section] = JsonColumn(content).v]]
         ELSE [ok |-> FALSE, row |-> row]
    [] section \in {"title", "status"} ->
         [ok |-> TRUE, row |-> [row EXCEPT ![section] = content]]
    [] section = "user_id" ->
         IF IsDigits(content) /\ ScanDigits(content, 1, 0).v.n \in Users
         THEN [ok |-> TRUE, row |-> [row EXCEPT !.user_id = ScanDigits(content, 1, 0).v.n]]
         ELSE [ok |-> FALSE, row |-> row]
    [] section = "business_idea_id" ->
         IF IsDigits(content) /\ ScanDigits(content, 1, 0).v.n \in DOMAIN ideas
         THEN [ok |-> TRUE,
               row |-> [row EXCEPT !.business_idea_id = ScanDigits(content, 1, 0).v.n]]
         ELSE [ok |-> FALSE, row |-> row]
    [] OTHER -> [ok |-> FALSE, row |-> row]

\* the handler of PUT /business/plans/:id/sections/:section: the content is
\* trimmed by its validator; the UPDATE sets the one column named in the path
SectionUpdate(u, id, section, content) ==
  LET op == "PUT /business/plans/:id/sections/:section"
      req == [id |-> id, section |-> section]
      trimmed == Trim(content)
  IN IF trimmed = ""
     THEN /\ resp' = Response(op, u, req, 400, [errors |-> "content"])
          /\ UNCHANGED plans
     ELSE IF ~OwnPlan(u, id)
     THEN /\ resp' = Response(op, u, req, 404, [error |-> "Business plan not found"])
          /\ UNCHANGED plans
     ELSE IF ~SectionWrite(plans[id], section, trimmed).ok
     THEN /\ resp' = Response(op, u, req, 500,
                              [error |-> "Failed to update business plan section"])
          /\ UNCHANGED plans
     ELSE /\ plans[id].updated_at < MaxUpdates
          /\ plans' = [plans EXCEPT ![id] =
                         [SectionWrite(plans[id], section, trimmed).row
                            EXCEPT !.updated_at = @ + 1]]
          /\ resp' = Response(op, u, req, 200,
                              [message |-> "Business plan section updated successfully"])

\* PUT /business/plans/:id/sections/:section, called by any client
UpdatePlanSection(u, id, section, content) ==
  /\ SectionUpdate(u, id, section, content)
  /\ UNCHANGED <<ideas, planSeq, chatVars, branch, calls, lastCall, pending, inflight>>

\* BusinessPlan page, handleGenerateWithAI up to the answer of the POST: the
\* page shows plan id, which it has loaded with its idea
HandleGenerateWithAI(u, id, section, outcome) ==
  /\ pending = NoPending
  /\ OwnPlan(u, id)
  /\ OwnIdea(u, plans[id].business_idea_id)
  /\ SectionGeneration(u, plans[id].business_idea_id, section, outcome)
  /\ pending' = IF outcome.ok
                THEN [user |-> u, id |-> id, section |-> section, content |-> outcome.text]
                ELSE NoPending
  /\ UNCHANGED <<planVars, chatVars, branch, inflight>>

\* BusinessPlan page, handleGenerateWithAI after the POST: "Also save to
\* database"; a failed save is only logged
SaveGeneratedSection ==
  /\ pending # NoPending
  /\ SectionUpdate(pending.user, pending.id, pending.section, pending.content)
  /\ pending' = NoPending
  /\ UNCHANGED <<ideas, planSeq, chatVars, branch, calls, lastCall, inflight>>

----------------------------------------------------------------------------
(* Reads over stored rows.  Rows written before the per-column layout are  *)
(* in the table and no route of this version writes them, so the rows read *)
(* are drawn from the values the columns' types admit.                     *)

LegacyAB == "{\"executiveSummary\":\"A\",\"marketAnalysis\":\"B\"}"
LegacyAll ==
  "{\"executiveSummary\":\"A\",\"marketAnalysis\":\"B\",\"financialProjections\":\"F\","
    \o "\"marketingSales\":\"S\",\"operationsPlan\":\"O\",\"riskAnalysis\":\"R\"}"
LegacyContent == " {\"content\":\"C\", \"riskAnalysis\":\"R\"}"
LegacyNested ==
  "{\"executiveSummary\":{\"goal\":\"G\"},\"marketAnalysis\":7,"
    \o "\"financialProjections\":{\"year1\":{\"revenue\":100},\"costs\":[1,2]}}"

\* executive_summary TEXT
StoredExecutiveSummaries ==
  {Null, Str(""), Str("Summary"), Str("{draft} Summary"), Str("{"),
   Str(LegacyAB), Str(LegacyAll), Str(LegacyContent), Str(LegacyNested),
   Str("42"), Str("true"), Str("\"quoted\""), Str("null")}

\* market_analysis, marketing_strategy, operations_plan, risk_analysis TEXT
StoredText(sec) == {Null, Str(""), Str("text of " \o sec)}

\* financial_projections JSON: the driver returns the parsed value
StoredFinancialProjections ==
  {Null, Str(""), Str("text of financial_projections"), Num(0), Num(42),
   Obj(<<>>),
   Obj(<<[k |-> "revenue", v |-> Obj(<<[k |-> "year1", v |-> Num(100)]>>)],
         [k |-> "breakEven", v |-> Str("month 8")]>>),
   Arr(<<Str("a"), Num(1)>>)}

InitIdeas == [i \in 1..NumUsers |-> [user_id |-> i, title |-> "Idea " \o NatToString(i)]]

InitRead ==
  /\ ideas = InitIdeas
  /\ \E es \in StoredExecutiveSummaries, fp \in StoredFinancialProjections,
        ma \in StoredText("market_analysis"), ms \in StoredText("marketing_strategy"),
        op \in StoredText("operations_plan"), ra \in StoredText("risk_analysis") :
       plans = [i \in 1..NumUsers |->
                  IF i = 1 THEN PlanRow(1, 1, "Plan 1", es, ma, fp, ms, op, ra)
                  ELSE PlanRow(i, i, "Plan " \o NatToString(i), Str("Summary"), Null,
                               Null, Null, Null, Null)]
  /\ planSeq = NumUsers + 1
  /\ conversations = <<>>
  /\ convSeq = 1
  /\ messages = <<>>
  /\ resp = NoResponse
  /\ branch = "none"
  /\ calls = 0
  /\ lastCall = NoCall
  /\ pending = NoPending
  /\ inflight = <<>>

NextRead == \E u \in Users, id \in 1..(NumUsers + 1) : GetBusinessPlan(u, id)

SpecRead == InitRead /\ [][NextRead]_vars

----------------------------------------------------------------------------
(* Claims about the normalized read *)

Read200 == resp.op = "GET /ai/business-plan/:id" /\ resp.status = 200
\* the row the last read returned, and the sections it answered
ReadRow == plans[resp.body.businessPlan.id]
ReadSections == resp.body.businessPlan.sections

\* a column is empty: null or the empty string (or, in the JSON column, a
\* value the code's || takes for empty)
IsEmpty(v) == ~Truthy(v)

\* old format as the specification defines it
IsOldFormat(plan) ==
  /\ \A sec \in OtherSections : IsEmpty(plan[sec])
  /\ plan.executive_summary.t = "string"
  /\ plan.executive_summary.s # ""
  /\ StartsWithAt(Trim(plan.executive_summary.s), 1, "{")

\* C6: a read handles a row as old format exactly when the five other
\* columns are empty and executive_summary, trimmed, begins with "{"; every
\* other row is handled as new format.
C6_OldFormatExactly == Read200 => (branch = "old" <=> IsOldFormat(ReadRow))

\* the executive_summary of the row read parses to an object of string values
ParsesToStrings(plan) ==
  LET r == JSONparse(plan.executive_summary.s) IN
    r.ok /\ r.v.t = "object" /\ \A i \in 1..Len(r.v.o) : r.v.o[i].v.t = "string"

\* the value of a key, the empty string when the key is absent
KeyOrEmpty(o, key) == IF Get(o, key) = Undefined THEN Str("") ELSE Get(o, key)

LegacyKey ==
  [executive_summary |-> "executiveSummary", market_analysis |-> "marketAnalysis",
   financial_projections |-> "financialProjections", marketing_strategy |-> "marketingSales",
   operations_plan |-> "operationsPlan", risk_analysis |-> "riskAnalysis"]

\* C7 as stated: for an old-format row whose executive_summary parses to an
\* object of string values, each section read is the value of its key, and
\* the empty string when the key is absent.
C7_KeysOrEmpty ==
  (Read200 /\ IsOldFormat(ReadRow) /\ ParsesToStrings(ReadRow)) =>
    \A sec \in SectionNames :
      ReadSections[sec] = KeyOrEmpty(JSONparse(ReadRow.executive_summary.s).v, LegacyKey[sec])

\* C7 amended: as C7, but executive_summary is the value of executiveSummary
\* when that is present and not empty, and otherwise the value of the key
\* content (the empty string when content is absent too).
C7_KeysOrContent ==
  (Read200 /\ IsOldFormat(ReadRow) /\ ParsesToStrings(ReadRow)) =>
    LET o == JSONparse(ReadRow.executive_summary.s).v IN
      /\ ReadSections.executive_summary =
           IF KeyOrEmpty(o, "executiveSummary") # Str("") THEN Get(o, "executiveSummary")
           ELSE KeyOrEmpty(o, "content")
      /\ \A sec \in OtherSections : ReadSections[sec] = KeyOrEmpty(o, LegacyKey[sec])

\* C7 witness: a legacy row with all six keys has been read
C7_Witness ==
  /\ Read200 /\ IsOldFormat(ReadRow) /\ ParsesToStrings(ReadRow)
  /\ \A sec \in SectionNames :
       Get(JSONparse(ReadRow.executive_summary.s).v, LegacyKey[sec]) # Undefined

\* C8: a row whose six columns all hold text (not empty) is read back column
\* by column.
C8_TextPassthrough ==
  (Read200 /\ \A sec \in SectionNames : ReadRow[sec].t = "string" /\ ReadRow[sec].s # "") =>
    \A sec \in SectionNames : ReadSections[sec] = ReadRow[sec]

\* C9: a row that is not old format and holds text only in executive_summary
\* (text not beginning with "{") is read as that text and five empty strings.
C9_OnlyExecutiveSummary ==
  (/\ Read200
   /\ ~IsOldFormat(ReadRow)
   /\ \A sec \in OtherSections : ReadRow[sec] \in {Null, Str("")}
   /\ ReadRow.executive_summary.t = "string"
   /\ ReadRow.executive_summary.s # ""
   /\ ~StartsWithAt(Trim(ReadRow.executive_summary.s), 1, "{")) =>
    /\ ReadSections.executive_summary = ReadRow.executive_summary
    /\ \A sec \in OtherSections : ReadSections[sec] = Str("")

\* C10: every section of a successful read is a string.
C10_SectionsAreStrings ==
  Read200 => \A sec \in SectionNames : ReadSections[sec].t = "string"

\* C10 witness: a row with a structured financial_projections has been read
\* through the new-format arm
C10_Witness ==
  /\ Read200
  /\ branch = "new"
  /\ ReadRow.financial_projections.t = "object"
  /\ ReadRow.financial_projections.o # <<>>

----------------------------------------------------------------------------
(* POST /ai/chat *)

\* bound on the rows chat_messages ever holds
MaxMessages == 6
\* bound on the rows chat_conversations ever holds
MaxConversations == 2

\* conversation id is a row of chat_conversations whose user_id is u
OwnConversation(u, id) == id \in DOMAIN conversations /\ conversations[id].user_id = u

\* SELECT role, content FROM chat_messages WHERE conversation_id = ?
History(msgs, convId) ==
  LET RECURSIVE Pick(_)
      Pick(i) == IF i > Len(msgs) THEN <<>>
                 ELSE IF msgs[i].conversation_id = convId
                 THEN <<[role |-> msgs[i].role, content |-> msgs[i].content]>> \o Pick(i + 1)
                 ELSE Pick(i + 1)
  IN Pick(1)

ChatMessage(convId, role, content) ==
  [conversation_id |-> convId, role |-> role, content |-> content]

\* conversationId 0 stands for a body without conversationId
Chat(u, message, conversationId, outcome) ==
  LET op == "POST /ai/chat"
      req == [message |-> message, conversationId |-> conversationId]
      trimmed == Trim(message)
      create == conversationId = 0
      convId == IF create THEN convSeq ELSE conversationId
      withUser == Append(messages, ChatMessage(convId, "user", trimmed))
  IN
  /\ IF trimmed = ""
     THEN /\ resp' = Response(op, u, req, 400, [errors |-> "message"])
          /\ UNCHANGED <<chatVars, calls, lastCall>>
     ELSE
       /\ create => convSeq <= MaxConversations
       /\ conversations' =
            IF create
            THEN [id \in DOMAIN conversations \cup {convSeq} |->
                    IF id = convSeq THEN [user_id |-> u] ELSE conversations[id]]
            ELSE conversations
       /\ convSeq' = IF create THEN convSeq + 1 ELSE convSeq
       /\ IF convId \notin DOMAIN conversations'
          THEN \* the INSERT of the user message breaks the foreign key
               /\ resp' = Response(op, u, req, 500,
                                   [error |-> "Failed to process chat message"])
               /\ UNCHANGED <<messages, calls, lastCall>>
          ELSE /\ Len(messages) + 2 <= MaxMessages
               /\ calls' = calls + 1
               /\ lastCall' = [op |-> op, message |-> trimmed,
                               history |-> History(withUser, convId)]
               /\ IF ~outcome.ok
                  THEN /\ messages' = withUser
                       /\ resp' = Response(op, u, req, 500,
                                           [error |-> "Failed to process chat message"])
                  ELSE /\ messages' =
                            Append(withUser, ChatMessage(convId, "assistant", outcome.text))
                       /\ resp' = Response(op, u, req, 200,
                                           [message |-> outcome.text,
                                            conversationId |-> convId])
  /\ UNCHANGED <<planVars, branch, pending, inflight>>

----------------------------------------------------------------------------
(* The plan routes over a database in which user 1 has a plan for idea 1  *)
(* and the other ideas have none.                                          *)

\* ids a request names
RequestIds == 1..NumUsers

PlanOutcomes == {ModelFails} \cup {ModelReturns(t) : t \in PlanCompletions}
SectionOutcomes == {ModelFails} \cup {ModelReturns(t) : t \in SectionCompletions}

\* completions of the financial-projection prompt
ProjectionCompletions == {"{\"revenue\":{\"year1\":100}}", "REVENUE:\nYear 1: 100"}
ProjectionOutcomes == {ModelFails} \cup {ModelReturns(t) : t \in ProjectionCompletions}

\* bodies of PUT /business/plans/:id/sections/:section: text, and blanks
PutContents == {" Edited ", "  "}

Init ==
  /\ ideas = InitIdeas
  /\ plans = [i \in {1} |->
                PlanRow(1, 1, "Plan 1", Str("Summary"), Str("Market"),
                        Obj(<<[k |-> "year1", v |-> Num(100)]>>), Null, Null, Null)]
  /\ planSeq = 2
  /\ conversations = <<>>
  /\ convSeq = 1
  /\ messages = <<>>
  /\ resp = NoResponse
  /\ branch = "none"
  /\ calls = 0
  /\ lastCall = NoCall
  /\ pending = NoPending
  /\ inflight = <<>>

Next ==
  \/ \E u \in Users, id \in RequestIds, outcome \in PlanOutcomes :
       GenerateBusinessPlan(u, id, outcome)
  \/ \E u \in Users, id \in RequestIds, outcome \in ProjectionOutcomes :
       GenerateFinancialProjection(u, id, outcome)
  \/ \E u \in Users, id \in RequestIds, section \in SectionNames,
        outcome \in SectionOutcomes :
       GenerateBusinessPlanSection(u, id, section, outcome)
  \/ \E u \in Users, id \in RequestIds, section \in SectionNames,
        outcome \in SectionOutcomes :
       HandleGenerateWithAI(u, id, section, outcome)
  \/ SaveGeneratedSection
  \/ \E u \in Users, id \in RequestIds, section \in SectionNames,
        content \in PutContents :
       UpdatePlanSection(u, id, section, content)
  \/ \E u \in Users, id \in RequestIds : GetBusinessPlan(u, id)

Spec == Init /\ [][Next]_vars

----------------------------------------------------------------------------
(* The chat route over a database in which user 1 has a conversation *)

ChatMessages == {"Hello", " "}
ChatReplies == {"Advice"}
ChatOutcomes == {ModelFails} \cup {ModelReturns(t) : t \in ChatReplies}

InitChat ==
  /\ ideas = InitIdeas
  /\ plans = <<>>
  /\ planSeq = 1
  /\ conversations = [i \in {1} |-> [user_id |-> 1]]
  /\ convSeq = 2
  /\ messages = <<ChatMessage(1, "user", "Private question"),
                  ChatMessage(1, "assistant", "Private answer")>>
  /\ resp = NoResponse
  /\ branch = "none"
  /\ calls = 0
  /\ lastCall = NoCall
  /\ pending = NoPending
  /\ inflight = <<>>

NextChat ==
  \E u \in Users, message \in ChatMessages, conversationId \in 0..(MaxConversations + 1),
     outcome \in ChatOutcomes :
    Chat(u, message, conversationId, outcome)

SpecChat == InitChat /\ [][NextChat]_vars

----------------------------------------------------------------------------
(* Claims about ownership and single-section generation *)

PostPlan == "POST /ai/generate-business-plan"
PostProjection == "POST /ai/generate-financial-projection"
PostSection == "POST /ai/generate-business-plan-section"
GetPlan == "GET /ai/business-plan/:id"
PutSection == "PUT /business/plans/:id/sections/:section"

\* the response r answers a request of user r.user for an idea or a plan
\* that another user owns
ForeignTarget(r) ==
  \/ /\ r.op \in {PostPlan, PostProjection, PostSection}
     /\ r.req.businessIdeaId \in DOMAIN ideas
     /\ ideas[r.req.businessIdeaId].user_id # r.user
  \/ /\ r.op = GetPlan
     /\ r.req.id \in DOMAIN plans
     /\ plans[r.req.id].user_id # r.user

NotFoundBodies ==
  {[error |-> "Business idea not found"], [error |-> "Business plan not found"]}

\* C1: a generation or read request for an idea or plan of another user is
\* answered 404 with a body that holds only the error text, calls the model
\* not at all and writes no row.
C1_OwnershipIsolation ==
  [][ForeignTarget(resp') =>
       /\ resp'.status = 404
       /\ resp'.body \in NotFoundBodies
       /\ calls' = calls
       /\ lastCall' = lastCall
       /\ planVars' = planVars /\ chatVars' = chatVars]_vars

\* C1 witness: a single-section generation for another user's idea has been
\* answered
C1_Witness == resp.op = PostSection /\ ForeignTarget(resp) /\ resp.status = 404

\* C3: the page's single-section generation on an existing plan row, and the
\* save it causes, leave the row's other five section columns as they were.
C3_OtherSectionsUnchanged ==
  [][/\ resp'.op = PostSection => plans' = plans
     /\ (pending # NoPending /\ pending' = NoPending) =>
          \A sec \in SectionNames \ {pending.section} :
            plans'[pending.id][sec] = plans[pending.id][sec]]_vars

\* C3 witness: the page has saved generated text into a column of a row
\* whose executive_summary and market_analysis hold text
C3_Witness ==
  /\ resp.op = PutSection /\ resp.status = 200 /\ pending = NoPending
  /\ resp.req.section = "risk_analysis"
  /\ plans[resp.req.id].risk_analysis = Str("Generated text")
  /\ plans[resp.req.id].executive_summary = Str("Summary")
  /\ plans[resp.req.id].market_analysis = Str("Market")

\* C4: when a successful POST /ai/generate-business-plan-section for section
\* S, answered with content c, is followed at once by the caller's GET
\* /ai/business-plan/:id of a plan of that idea, the GET returns S equal to c.
C4_GenerationPersists ==
  [][(/\ resp.op = PostSection /\ resp.status = 200
      /\ resp'.op = GetPlan /\ resp'.status = 200
      /\ resp'.user = resp.user
      /\ plans[resp'.req.id].business_idea_id = resp.req.businessIdeaId) =>
       resp'.body.businessPlan.sections[resp.req.section] = Str(resp.body.content)]_vars

\* C5: after a successful single-section generation for an idea that had no
\* plan row, a plan row of that idea exists, holding the generated content in
\* the targeted column and null in the other five.
C5_SynthesizesPlan ==
  [][(/\ resp'.op = PostSection /\ resp'.status = 200
      /\ \A id \in DOMAIN plans :
           plans[id].business_idea_id # resp'.req.businessIdeaId) =>
       \E id \in DOMAIN plans' :
         /\ plans'[id].business_idea_id = resp'.req.businessIdeaId
         /\ plans'[id][resp'.req.section] = Str(resp'.body.content)
         /\ \A sec \in SectionNames \ {resp'.req.section} : plans'[id][sec] = Null]_vars

----------------------------------------------------------------------------
(* Claim about chat *)

\* C2: a chat request with a valid message that names a conversation which
\* does not exist or belongs to another user is answered 404, appends no
\* message to that conversation, and gives the model none of its messages.
C2_ForeignConversation ==
  [][(/\ resp'.op = "POST /ai/chat"
      /\ resp'.status # 400
      /\ resp'.req.conversationId # 0
      /\ ~OwnConversation(resp'.user, resp'.req.conversationId)) =>
       /\ resp'.status = 404
       /\ History(messages', resp'.req.conversationId) =
            History(messages, resp'.req.conversationId)
       /\ \/ calls' = calls
          \/ \A i \in 1..Len(lastCall'.history) :
               \A j \in 1..Len(History(messages, resp'.req.conversationId)) :
                 lastCall'.history[i] # History(messages, resp'.req.conversationId)[j]]_vars

----------------------------------------------------------------------------
(* GET /business/plans/:id, and the two reads of a plan side by side *)

\* GET /business/plans/:id: the row as stored
GetPlanById(u, id) ==
  /\ resp' = IF ~OwnPlan(u, id)
             THEN Response("GET /business/plans/:id", u, [id |-> id], 404,
                           [error |-> "Business plan not found"])
             ELSE Response("GET /business/plans/:id", u, [id |-> id], 200,
                           [plan |-> plans[id]])
  /\ UNCHANGED <<planVars, chatVars, branch, calls, lastCall, pending, inflight>>

\* rows of plan 1 that differ in executive_summary and financial_projections
InitPlanReads ==
  /\ ideas = InitIdeas
  /\ \E es \in StoredExecutiveSummaries, fp \in StoredFinancialProjections :
       plans = [i \in 1..NumUsers |->
                  IF i = 1 THEN PlanRow(1, 1, "Plan 1", es, Null, fp, Null, Null, Null)
                  ELSE PlanRow(i, i, "Plan " \o NatToString(i), Str("Summary"), Null,
                               Null, Null, Null, Null)]
  /\ planSeq = NumUsers + 1
  /\ conversations = <<>>
  /\ convSeq = 1
  /\ messages = <<>>
  /\ resp = NoResponse
  /\ branch = "none"
  /\ calls = 0
  /\ lastCall = NoCall
  /\ pending = NoPending
  /\ inflight = <<>>

NextPlanReads ==
  \/ \E u \in Users, id \in 1..(NumUsers + 1) : GetBusinessPlan(u, id)
  \/ \E u \in Users, id \in 1..(NumUsers + 1) : GetPlanById(u, id)

SpecPlanReads == InitPlanReads /\ [][NextPlanReads]_vars

\* the executive_summary a successful read of a plan has answered, and the
\* row it read
AnsweredSummary ==
  IF resp.op = "GET /business/plans/:id" THEN resp.body.plan.executive_summary
  ELSE resp.body.businessPlan.sections.executive_summary
AnsweredRow == plans[resp.req.id]

\* C11: no successful read of a plan, by GET /ai/business-plan/:id or by
\* GET /business/plans/:id, answers with the raw JSON text of an old-format
\* row as executive_summary.
C11_NoRawLegacyBlob ==
  (/\ resp.op \in {"GET /ai/business-plan/:id", "GET /business/plans/:id"}
   /\ resp.status = 200
   /\ IsOldFormat(AnsweredRow)
   /\ JSONparse(AnsweredRow.executive_summary.s).ok
   /\ JSONparse(AnsweredRow.executive_summary.s).v.t = "object") =>
    AnsweredSummary # AnsweredRow.executive_summary

----------------------------------------------------------------------------
(* Claims about flattening and about the parse fallback of the read *)

\* C12: formatObjectToText returns a string unchanged, and applying it to
\* its own result changes nothing: for every column value of a row read and
\* for every section the read answered.
C12_FlattenIdempotent ==
  Read200 =>
    \A sec \in SectionNames :
      LET v == Or(ReadRow[sec], Str("")) IN
        /\ v.t = "string" => formatObjectToText(v) = v
        /\ formatObjectToText(formatObjectToText(v)) = formatObjectToText(v)
        /\ formatObjectToText(ReadSections[sec]) = ReadSections[sec]

\* C12 witness: a row holding text in market_analysis and an array in
\* financial_projections has been read through the new-format arm
C12_Witness ==
  /\ Read200 /\ branch = "new"
  /\ ReadRow.market_analysis = Str("text of market_analysis")
  /\ ReadRow.financial_projections.t = "array"
  /\ ReadSections.financial_projections.t = "string"

\* C13: a read of an old-format row whose executive_summary does not parse
\* as JSON is answered 200 with the whole stored text as executive_summary
\* and the empty string in the other five sections.
C13_ParseFailureFallback ==
  [][(/\ resp'.op = "GET /ai/business-plan/:id"
      /\ OwnPlan(resp'.user, resp'.req.id)
      /\ OwnIdea(resp'.user, plans[resp'.req.id].business_idea_id)
      /\ IsOldFormat(plans[resp'.req.id])
      /\ ~JSONparse(plans[resp'.req.id].executive_summary.s).ok) =>
       /\ resp'.status = 200
       /\ resp'.body.businessPlan.sections.executive_summary =
            plans[resp'.req.id].executive_summary
       /\ \A sec \in OtherSections :
            resp'.body.businessPlan.sections[sec] = Str("")]_vars

\* C13 witness: the row with executive_summary "{draft} Summary" and nothing
\* else has been read
C13_Witness ==
  /\ Read200 /\ IsOldFormat(ReadRow)
  /\ ReadRow.executive_summary = Str("{draft} Summary")
  /\ ReadSections.executive_summary = Str("{draft} Summary")

----------------------------------------------------------------------------
(* POST /ai/generate-ideas, and the routes that parse a completion *)

\* bound on the rows business_ideas ever holds
MaxIdeas == 4

\* AUTO_INCREMENT of business_ideas: no row is deleted here, so the next id
\* is one past the number of rows
NextIdeaId(rows) == Cardinality(DOMAIN rows) + 1

\* the row the INSERT of /generate-ideas stores for idea
IdeaRow(u, idea) ==
  [user_id |-> u,
   title |-> ToStr(Or(Get(idea, "title"), Str("Untitled Business Idea"))),
   description |-> Or(Get(idea, "description"), Str("")),
   industry |-> Or(Get(idea, "industry"), Str("General")),
   target_market |-> Or(Get(idea, "targetMarket"), Str("")),
   initial_investment |-> Or(Get(idea, "initialInvestment"), Num(0)),
   expected_revenue |-> Or(Get(idea, "expectedRevenue"), Num(0)),
   success_probability |-> Or(Get(idea, "successProbability"), Num(50)),
   status |-> "draft"]

\* a value a DECIMAL column stores: a number, or the text of one (strict SQL
\* mode refuses other text; an array or an object is no parameter value)
DecimalOk(v) == v.t \in {"number", "boolean"} \/ (v.t = "string" /\ IsDigits(v.s))

\* the INSERT of row succeeds; success_probability is DECIMAL(5,2)
InsertOk(row) ==
  /\ DecimalOk(row.initial_investment)
  /\ DecimalOk(row.expected_revenue)
  /\ DecimalOk(row.success_probability)
  /\ row.success_probability.t = "number" => row.success_probability.n < 1000

RECURSIVE SaveIdeas(_, _, _, _)
\* the loop over ideas from element i on: the table and savedIdeas after it,
\* and whether it threw (reading a property of null or undefined throws, and
\* so does an INSERT the table refuses; the rows inserted before stay)
SaveIdeas(u, list, i, acc) ==
  IF i > Len(list) THEN [threw |-> FALSE, rows |-> acc.rows, saved |-> acc.saved]
  ELSE IF list[i].t \in {"null", "undefined"} \/ ~InsertOk(IdeaRow(u, list[i]))
  THEN [threw |-> TRUE, rows |-> acc.rows, saved |-> acc.saved]
  ELSE LET id == NextIdeaId(acc.rows)
           row == IdeaRow(u, list[i])
       IN SaveIdeas(u, list, i + 1,
            [rows |-> [j \in DOMAIN acc.rows \cup {id} |->
                         IF j = id THEN row ELSE acc.rows[j]],
             saved |-> Append(acc.saved, [id |-> id, row |-> row])])

\* POST /ai/generate-ideas
GenerateIdeas(u, input, outcome) ==
  LET op == "POST /ai/generate-ideas"
      req == [input |-> input]
      failed == Response(op, u, req, 500, [error |-> "Failed to generate business ideas"])
  IN
  /\ IF Len(Trim(input)) < 10
     THEN /\ resp' = Response(op, u, req, 400, [errors |-> "input"])
          /\ UNCHANGED <<ideas, calls, lastCall>>
     ELSE
       /\ calls < MaxModelCalls
       /\ calls' = calls + 1
       /\ lastCall' = [op |-> op, input |-> Trim(input), outcome |-> outcome]
       /\ IF ~outcome.ok \/ generateBusinessIdeas(outcome.text).threw
          THEN /\ resp' = failed
               /\ UNCHANGED ideas
          ELSE LET list == generateBusinessIdeas(outcome.text).v.a
                   done == SaveIdeas(u, list, 1, [rows |-> ideas, saved |-> <<>>])
               IN /\ Cardinality(DOMAIN ideas) + Len(list) <= MaxIdeas
                  /\ ideas' = done.rows
                  /\ resp' = IF done.threw THEN failed
                             ELSE Response(op, u, req, 200,
                                    [message |-> "Business ideas generated successfully",
                                     ideas |-> done.saved])
  /\ UNCHANGED <<plans, planSeq, chatVars, branch, pending, inflight>>

IdeaInputs == {"A bakery in Musanze", " short "}

\* completions of the ideas prompt: a JSON array inside prose, prose with
\* bracketed asides (the capture is no JSON), labelled lines, prose that
\* holds no idea, an array with a zero and an out-of-range number, an array
\* whose second idea the table refuses, and labelled lines with an amount of
\* two separators
IdeaCompletions ==
  {"Here you go: [{\"title\":\"Bakery\",\"description\":\"Bread\","
     \o "\"initialInvestment\":50000}] Good luck",
   "Business Title: Bakery\nDescription: Bread [fresh] daily [hot]",
   "Business Title: Bakery\nDescription: Bread\nInvestment: 50,000 RWF",
   "Sorry, no ideas.",
   "[{\"title\":\"Bakery\",\"initialInvestment\":0,\"expectedRevenue\":900000,"
     \o "\"successProbability\":150},"
     \o "{\"title\":\"Cafe\",\"initialInvestment\":70,\"successProbability\":0}]",
   "[{\"title\":\"Bakery\"},{\"title\":\"Cafe\",\"initialInvestment\":\"lots\"}]",
   "Business Title: Bakery\nInvestment: 1,000,000 RWF\nRevenue: none"}
IdeaOutcomes == {ModelFails} \cup {ModelReturns(t) : t \in IdeaCompletions}

\* completions of the whole-plan prompt that hold no JSON: headers in
\* capitals, a header in mixed case, and no header
HeadedCompletions ==
  {"1. EXECUTIVE SUMMARY\nOur shop\nMARKET ANALYSIS:\nLocal demand",
   "Market Analysis:\nLocal demand\nfor bread",
   "We could not write a plan."}
ExtractPlanOutcomes ==
  PlanOutcomes \cup {ModelReturns(t) : t \in HeadedCompletions}

\* completions of the financial-projection prompt, with headed prose whose
\* braces hold no JSON
ExtractProjectionOutcomes ==
  ProjectionOutcomes \cup {ModelReturns("REVENUE:\nYear 1 {estimate}: 100")}

InitExtract ==
  /\ ideas = InitIdeas
  /\ plans = <<>>
  /\ planSeq = 1
  /\ conversations = <<>>
  /\ convSeq = 1
  /\ messages = <<>>
  /\ resp = NoResponse
  /\ branch = "none"
  /\ calls = 0
  /\ lastCall = NoCall
  /\ pending = NoPending
  /\ inflight = <<>>

NextExtract ==
  \/ \E u \in Users, input \in IdeaInputs, outcome \in IdeaOutcomes :
       GenerateIdeas(u, input, outcome)
  \/ \E u \in Users, id \in RequestIds, outcome \in ExtractPlanOutcomes :
       GenerateBusinessPlan(u, id, outcome)
  \/ \E u \in Users, id \in RequestIds, outcome \in ExtractProjectionOutcomes :
       GenerateFinancialProjection(u, id, outcome)

SpecExtract == InitExtract /\ [][NextExtract]_vars

PostIdeas == "POST /ai/generate-ideas"

\* the completion of call holds a bracket capture that is no JSON
UnparseableCapture(call) ==
  /\ call.outcome.ok
  /\ LET m == IF call.op = PostIdeas THEN MatchArray(call.outcome.text)
              ELSE MatchObject(call.outcome.text)
     IN m.found /\ ~JSONparse(m.text).ok

\* C14: in generateBusinessIdeas, generateBusinessPlan and
\* generateFinancialProjection a bracket capture that is not valid JSON does
\* not raise: the request is answered 200 with what the heuristic line parser
\* makes of the completion.
C14_UnparseableCaptureFallsThrough ==
  [][(calls' = calls + 1 /\ UnparseableCapture(lastCall')) =>
       /\ resp'.status = 200
       /\ CASE resp'.op = PostIdeas ->
                 Len(resp'.body.ideas) = Len(parseBusinessIdeas(lastCall'.outcome.text).a)
            [] resp'.op = PostPlan ->
                 Get(resp'.body.businessPlan, "sections")
                   = parseBusinessPlanSections(lastCall'.outcome.text)
            [] resp'.op = PostProjection ->
                 Get(resp'.body.financialProjection, "projections")
                   = parseFinancialProjections(lastCall'.outcome.text)]_vars

\* C14 for the two paths that do fall through: plan and projection
C14_PlanAndProjectionFallThrough ==
  [][(calls' = calls + 1 /\ UnparseableCapture(lastCall') /\ resp'.op # PostIdeas) =>
       /\ resp'.status = 200
       /\ CASE resp'.op = PostPlan ->
                 Get(resp'.body.businessPlan, "sections")
                   = parseBusinessPlanSections(lastCall'.outcome.text)
            [] resp'.op = PostProjection ->
                 Get(resp'.body.financialProjection, "projections")
                   = parseFinancialProjections(lastCall'.outcome.text)]_vars

\* a header line '<Label>:': a label of words that begins with a capital
IsLabelHeader(line) ==
  /\ Len(line) >= 2
  /\ Ch(line, Len(line)) = ":"
  /\ IsUpper(Ch(line, 1))
  /\ \A i \in 1..(Len(line) - 1) :
       IsUpper(Ch(line, i)) \/ IsLower(Ch(line, i)) \/ IsSpace(Ch(line, i))

RECURSIVE BodyLines(_, _)
\* the body lines from line i up to the next header
BodyLines(lines, i) ==
  IF i > Len(lines) THEN <<>>
  ELSE LET line == Trim(lines[i]) IN
    IF IsLabelHeader(line) \/ IsNumberedHeader(line) \/ IsColonHeader(line) THEN <<>>
    ELSE IF line = "" THEN BodyLines(lines, i + 1)
    ELSE <<line>> \o BodyLines(lines, i + 1)

\* C15: for a completion without JSON, every header line '<Label>:' with a
\* capitalized label that is followed by body lines gives, in the mapping the
\* heuristic parser returns, a key for that label whose value is the body
\* lines joined, up to the next header.
C15_LabelHeaderRecognized ==
  [][(calls' = calls + 1 /\ resp'.op = PostPlan /\ lastCall'.outcome.ok
        /\ ~MatchObject(lastCall'.outcome.text).found) =>
       LET lines == SplitLines(lastCall'.outcome.text) IN
         \A i \in 1..Len(lines) :
           (IsLabelHeader(Trim(lines[i])) /\ BodyLines(lines, i + 1) # <<>>) =>
             Get(parseBusinessPlanSections(lastCall'.outcome.text),
                 HeaderName(Trim(lines[i])))
               = Str(Join(BodyLines(lines, i + 1), "\n"))]_vars

\* C15 for labels in capitals only, which the parser does recognise
C15_CapitalsHeaderRecognized ==
  [][(calls' = calls + 1 /\ resp'.op = PostPlan /\ lastCall'.outcome.ok
        /\ ~MatchObject(lastCall'.outcome.text).found) =>
       LET lines == SplitLines(lastCall'.outcome.text) IN
         \A i \in 1..Len(lines) :
           (IsColonHeader(Trim(lines[i])) /\ BodyLines(lines, i + 1) # <<>>) =>
             Get(parseBusinessPlanSections(lastCall'.outcome.text),
                 HeaderName(Trim(lines[i])))
               = Str(Join(BodyLines(lines, i + 1), "\n"))]_vars

\* the completion of call holds no bracket capture that parses: what is
\* extracted from it is heuristic or empty
HeuristicExtraction(call) ==
  /\ call.outcome.ok
  /\ LET m == IF call.op = PostIdeas THEN MatchArray(call.outcome.text)
              ELSE MatchObject(call.outcome.text)
     IN ~(m.found /\ JSONparse(m.text).ok)

\* C16: when the model call succeeds and extraction is heuristic or empty,
\* POST /ai/generate-business-plan and POST /ai/generate-ideas still answer
\* 200, never 500, and the plan route inserts its row.
C16_BestEffortStill200 ==
  [][(calls' = calls + 1 /\ resp'.op \in {PostIdeas, PostPlan}
        /\ HeuristicExtraction(lastCall')) =>
       /\ resp'.status = 200
       /\ resp'.op = PostPlan => planSeq \in DOMAIN plans' \ DOMAIN plans]_vars

\* C16 for the plan route alone
C16_PlanBestEffortStill200 ==
  [][(calls' = calls + 1 /\ resp'.op = PostPlan /\ HeuristicExtraction(lastCall')) =>
       /\ resp'.status = 200
       /\ planSeq \in DOMAIN plans' \ DOMAIN plans]_vars

\* the text the heuristic parser recovered under header, "" when none
Recovered(businessPlan, header) ==
  IF Get(businessPlan, "sections").t = "object"
  THEN Or(Get(Get(businessPlan, "sections"), header), Str(""))
  ELSE Str("")

\* C17: when whole-plan extraction gives a record keyed by prose headers, the
\* inserted row's executive_summary and market_analysis hold the text
\* recovered under 'EXECUTIVE SUMMARY' and 'MARKET ANALYSIS'.
C17_ProseHeadersMapped ==
  [][(calls' = calls + 1 /\ resp'.op = PostPlan /\ resp'.status = 200
        /\ HeuristicExtraction(lastCall')) =>
       LET businessPlan == resp'.body.businessPlan IN
         /\ plans'[planSeq].executive_summary = Recovered(businessPlan, "EXECUTIVE SUMMARY")
         /\ plans'[planSeq].market_analysis = Recovered(businessPlan, "MARKET ANALYSIS")]_vars

----------------------------------------------------------------------------
(* The POST routes of the AI router with their validators, over request *)
(* bodies as they arrive                                                 *)

\* A request that fails validation is answered with req holding its body as
\* it arrived; the handlers that run hold in req the fields they read.

\* the string express-validator tests for a field: '' for a missing field
FieldString(v) ==
  CASE v.t = "string" -> v.s
    [] v.t = "number" -> NumberToString(v.n)
    [] OTHER -> ""

\* isInt(): an optional sign, then 0 or digits without a leading zero
IsInt(s) ==
  LET d == IF Len(s) > 0 /\ Ch(s, 1) \in {"-", "+"} THEN Tail(s) ELSE s IN
    /\ Len(d) >= 1
    /\ \A i \in 1..Len(d) : IsDigit(Ch(d, i))
    /\ Len(d) > 1 => Ch(d, 1) # "0"

\* the id the WHERE clause compares with for a field that passed isInt()
IdOf(v) == IF v.t = "number" THEN v.n ELSE ScanDigits(v.s, 1, 0).v.n

\* a model call that fails: text is the provider's error text
ProviderFails == [ok |-> FALSE, text |-> "429 quota exceeded"]

\* the route with its validators run after the model call
PostGenerateBusinessPlanLate(u, businessIdeaId, outcome) ==
  IF ~IsInt(FieldString(businessIdeaId))
  THEN /\ calls < MaxModelCalls
       /\ calls' = calls + 1
       /\ lastCall' = [op |-> "POST /ai/generate-business-plan", outcome |-> outcome]
       /\ resp' = Response("POST /ai/generate-business-plan", u,
                           [body |-> [businessIdeaId |-> businessIdeaId]], 400,
                           [errors |-> "businessIdeaId"])
       /\ UNCHANGED <<planVars, chatVars, branch, pending, inflight>>
  ELSE GenerateBusinessPlan(u, IdOf(businessIdeaId), outcome)
\* POST /ai/generate-business-plan with body('businessIdeaId').isInt()
PostGenerateBusinessPlan(u, businessIdeaId, outcome) ==
  IF ~IsInt(FieldString(businessIdeaId))
  THEN /\ resp' = Response("POST /ai/generate-business-plan", u,
                           [body |-> [businessIdeaId |-> businessIdeaId]], 400,
                           [errors |-> "businessIdeaId"])
       /\ UNCHANGED <<planVars, chatVars, branch, calls, lastCall, pending, inflight>>
  ELSE GenerateBusinessPlan(u, IdOf(businessIdeaId), outcome)

\* POST /ai/generate-financial-projection with body('businessIdeaId').isInt()
PostGenerateFinancialProjection(u, businessIdeaId, outcome) ==
  IF ~IsInt(FieldString(businessIdeaId))
  THEN /\ resp' = Response("POST /ai/generate-financial-projection", u,
                           [body |-> [businessIdeaId |-> businessIdeaId]], 400,
                           [errors |-> "businessIdeaId"])
       /\ UNCHANGED <<planVars, chatVars, branch, calls, lastCall, pending, inflight>>
  ELSE GenerateFinancialProjection(u, IdOf(businessIdeaId), outcome)

\* the fields of POST /ai/generate-business-plan-section that fail:
\* body('section').notEmpty(), body('businessIdeaId').isInt()
SectionErrors(section, businessIdeaId) ==
  (IF FieldString(section) = "" THEN <<"section">> ELSE <<>>)
    \o (IF ~IsInt(FieldString(businessIdeaId)) THEN <<"businessIdeaId">> ELSE <<>>)

\* POST /ai/generate-business-plan-section with its validators
PostGenerateBusinessPlanSection(u, section, businessIdeaId, outcome) ==
  IF SectionErrors(section, businessIdeaId) # <<>>
  THEN /\ resp' = Response("POST /ai/generate-business-plan-section", u,
                           [body |-> [section |-> section,
                                      businessIdeaId |-> businessIdeaId]], 400,
                           [errors |-> Join(SectionErrors(section, businessIdeaId), ",")])
       /\ UNCHANGED <<planVars, chatVars, branch, calls, lastCall, pending, inflight>>
  ELSE GenerateBusinessPlanSection(u, IdOf(businessIdeaId), FieldString(section), outcome)

\* POST /ai/chat with body('conversationId').optional().isInt(): a missing
\* conversationId is not validated
PostChat(u, message, conversationId, outcome) ==
  IF conversationId.t # "undefined" /\ ~IsInt(FieldString(conversationId))
  THEN /\ resp' = Response("POST /ai/chat", u,
                           [body |-> [message |-> message,
                                      conversationId |-> conversationId]], 400,
                           [errors |-> (IF Trim(message) = "" THEN "message," ELSE "")
                                         \o "conversationId"])
       /\ UNCHANGED <<planVars, chatVars, branch, calls, lastCall, pending, inflight>>
  ELSE Chat(u, message,
            IF conversationId.t = "undefined" THEN 0 ELSE IdOf(conversationId), outcome)

\* the fields of POST /ai/generate-plan-section that fail:
\* body('section').trim().isLength({min: 1}),
\* body('businessIdea').trim().isLength({min: 10})
PlanSectionErrors(section, businessIdea) ==
  (IF Len(Trim(section)) < 1 THEN <<"section">> ELSE <<>>)
    \o (IF Len(Trim(businessIdea)) < 10 THEN <<"businessIdea">> ELSE <<>>)

\* the route answering 500 with the message of the error it caught; the
\* service is called with (section, businessIdea) for its parameters
\* (businessIdea, section), so its message names the idea text
GeneratePlanSectionLeaking(u, section, businessIdea, outcome) ==
  LET op == "POST /ai/generate-plan-section"
      req == [section |-> section, businessIdea |-> businessIdea]
  IN
  /\ IF PlanSectionErrors(section, businessIdea) # <<>>
     THEN /\ resp' = Response(op, u, req, 400,
                              [errors |-> Join(PlanSectionErrors(section, businessIdea), ",")])
          /\ UNCHANGED <<calls, lastCall>>
     ELSE /\ calls < MaxModelCalls
          /\ calls' = calls + 1
          /\ lastCall' = [op |-> op, businessIdea |-> Trim(section),
                          section |-> Trim(businessIdea)]
          /\ resp' = IF ~outcome.ok
                     THEN Response(op, u, req, 500,
                            [error |-> "Failed to generate " \o Trim(businessIdea)
                                          \o " section"])
                     ELSE Response(op, u, req, 200,
                            [message |-> "Business plan section generated successfully",
                             content |-> outcome.text])
  /\ UNCHANGED <<planVars, chatVars, branch, pending, inflight>>
\* POST /ai/generate-plan-section: the service is called with
\* (section, businessIdea) for its parameters (businessIdea, section)
GeneratePlanSection(u, section, businessIdea, outcome) ==
  LET op == "POST /ai/generate-plan-section"
      req == [section |-> section, businessIdea |-> businessIdea]
  IN
  /\ IF PlanSectionErrors(section, businessIdea) # <<>>
     THEN /\ resp' = Response(op, u, req, 400,
                              [errors |-> Join(PlanSectionErrors(section, businessIdea), ",")])
          /\ UNCHANGED <<calls, lastCall>>
     ELSE /\ calls < MaxModelCalls
          /\ calls' = calls + 1
          /\ lastCall' = [op |-> op, businessIdea |-> Trim(section),
                          section |-> Trim(businessIdea)]
          /\ resp' = IF ~outcome.ok
                     THEN Response(op, u, req, 500,
                            [error |-> "Failed to generate business plan section"])
                     ELSE Response(op, u, req, 200,
                            [message |-> "Business plan section generated successfully",
                             content |-> outcome.text])
  /\ UNCHANGED <<planVars, chatVars, branch, pending, inflight>>

\* request fields as they arrive: ids, a text that is no integer, no field
RawIds == {Num(1), Str("2"), Str("abc"), Undefined}
RawConversationIds == {Undefined, Num(1), Num(3), Str("abc")}
\* section fields: one of the six names, another name, blank, no field
RawSections == {Str("risk_analysis"), Str("swot"), Str(""), Undefined}
PlanSectionNames == {"market_analysis", "swot", " "}

ValidatePlanOutcomes == {ProviderFails, ModelReturns("{\"executiveSummary\":\"E\"}")}
ValidateIdeaOutcomes ==
  {ProviderFails, ModelReturns("[{\"title\":\"Bakery\"}]"), ModelReturns("[null]")}
ValidateTextOutcomes == {ProviderFails, ModelReturns("Generated text")}

\* user 1 has a conversation of two exchanges
InitValidate ==
  /\ ideas = InitIdeas
  /\ plans = <<>>
  /\ planSeq = 1
  /\ conversations = [i \in {1} |-> [user_id |-> 1]]
  /\ convSeq = 2
  /\ messages = <<ChatMessage(1, "user", "Private question"),
                  ChatMessage(1, "assistant", "Private answer"),
                  ChatMessage(1, "user", "Second question"),
                  ChatMessage(1, "assistant", "Second answer")>>
  /\ resp = NoResponse
  /\ branch = "none"
  /\ calls = 0
  /\ lastCall = NoCall
  /\ pending = NoPending
  /\ inflight = <<>>

NextValidate ==
  \/ \E u \in Users, input \in IdeaInputs, outcome \in ValidateIdeaOutcomes :
       GenerateIdeas(u, input, outcome)
  \/ \E u \in Users, message \in ChatMessages, conversationId \in RawConversationIds,
        outcome \in ValidateTextOutcomes :
       PostChat(u, message, conversationId, outcome)
  \/ \E u \in Users, section \in PlanSectionNames, businessIdea \in IdeaInputs,
        outcome \in ValidateTextOutcomes :
       GeneratePlanSection(u, section, businessIdea, outcome)
  \/ \E u \in Users, id \in RawIds, outcome \in ValidatePlanOutcomes :
       PostGenerateBusinessPlan(u, id, outcome)
  \/ \E u \in Users, id \in RawIds, outcome \in ValidatePlanOutcomes :
       PostGenerateFinancialProjection(u, id, outcome)
  \/ \E u \in Users, section \in RawSections, id \in RawIds,
        outcome \in ValidateTextOutcomes :
       PostGenerateBusinessPlanSection(u, section, id, outcome)

SpecValidate == InitValidate /\ [][NextValidate]_vars

PostChatOp == "POST /ai/chat"
PostPlanSection == "POST /ai/generate-plan-section"

\* the answer to a request that failed validation, and nothing else done: no
\* model call, no row inserted or updated
RejectedUntouched ==
  /\ resp'.status = 400
  /\ DOMAIN resp'.body = {"errors"}
  /\ calls' = calls
  /\ lastCall' = lastCall
  /\ UNCHANGED <<ideas, plans, conversations, messages>>

SectionOf(req) ==
  IF "body" \in DOMAIN req THEN FieldString(req.body.section) ELSE req.section

\* C19: POST /ai/generate-business-plan-section accepts a section only if it
\* is one of the six section names: any other section value is rejected with
\* 400 and no model call is made. (Stated for requests that are not answered
\* 404, that is, that do not name an idea missing or of another user.)
C19_SectionEnumEnforced ==
  [][(resp'.op = PostSection /\ resp'.status # 404
        /\ SectionOf(resp'.req) \notin SectionNames) =>
       /\ resp'.status = 400
       /\ calls' = calls]_vars

\* the strings the catch blocks of the AI routes answer with
FixedErrors(op) ==
  CASE op = PostIdeas -> {"Failed to generate business ideas"}
    [] op = PostChatOp -> {"Failed to create conversation", "Failed to process chat message"}
    [] op = PostPlanSection -> {"Failed to generate business plan section"}
    [] op = PostPlan -> {"Failed to generate business plan"}
    [] op = PostProjection -> {"Failed to generate financial projection"}
    [] op = PostSection -> {"Failed to generate section"}
    [] op = GetPlan -> {"Failed to fetch business plan"}
    [] OTHER -> {}

\* C20: whenever an AI endpoint answers 500, the body is {error: <a fixed
\* string of the route>}: it holds neither the message of the exception
\* caught nor the provider's error text.
C20_FixedErrorBodies ==
  resp.status = 500 =>
    /\ DOMAIN resp.body = {"error"}
    /\ resp.body.error \in FixedErrors(resp.op)
    /\ ~Includes(resp.body.error, ProviderFails.text)

\* the model call of POST /ai/generate-plan-section failed and the route
\* answered 500
C20_Witness ==
  /\ resp.status = 500
  /\ resp.op = PostPlanSection
  /\ lastCall.op = PostPlanSection
  /\ calls = 1

----------------------------------------------------------------------------
(* Handlers taken one await at a time: requests overlap, each suspended at *)
(* its query or at its model call while the others run                     *)

\* bound on the requests a behaviour holds, finished ones included
MaxInflight == 2
Slots == 1..MaxInflight

\* a slot no request has taken
Idle == [pc |-> "idle"]
FreeSlot(i) == inflight[i].pc = "idle" /\ \A j \in 1..(i - 1) : inflight[j].pc # "idle"

\* the handler of slot i has answered: res.status(status).json(body)
Answered(i, r, status, body) ==
  /\ inflight' = [inflight EXCEPT ![i] = [r EXCEPT !.pc = "done"] @@ [status |-> status]]
  /\ resp' = Response(r.op, r.user, r.req, status, body)

\* the handler of slot i is suspended at its next await
Suspended(i, r) ==
  /\ inflight' = [inflight EXCEPT ![i] = r]
  /\ UNCHANGED resp

\* POST /ai/chat up to its first message query: validation, and the INSERT
\* of the conversation when the body names none (conversationId 0)
ChatBegin(i, u, message, conversationId) ==
  LET op == "POST /ai/chat"
      r == [op |-> op, user |-> u, pc |-> "saveUser", connected |-> TRUE,
            req |-> [message |-> message, conversationId |-> conversationId],
            message |-> Trim(message),
            convId |-> IF conversationId = 0 THEN convSeq ELSE conversationId]
  IN
  /\ FreeSlot(i)
  /\ IF Trim(message) = ""
     THEN /\ Answered(i, r, 400, [errors |-> "message"])
          /\ UNCHANGED <<conversations, convSeq>>
     ELSE /\ conversationId = 0 => convSeq <= MaxConversations
          /\ conversations' =
               IF conversationId = 0
               THEN [id \in DOMAIN conversations \cup {convSeq} |->
                       IF id = convSeq THEN [user_id |-> u] ELSE conversations[id]]
               ELSE conversations
          /\ convSeq' = IF conversationId = 0 THEN convSeq + 1 ELSE convSeq
          /\ Suspended(i, r)
  /\ UNCHANGED <<planVars, messages, branch, calls, lastCall, pending>>

\* POST /ai/chat: "Save user message"
ChatSaveUser(i) ==
  LET r == inflight[i] IN
  /\ r.pc = "saveUser"
  /\ IF r.convId \notin DOMAIN conversations
     THEN \* the INSERT breaks the foreign key
          /\ Answered(i, r, 500, [error |-> "Failed to process chat message"])
          /\ UNCHANGED messages
     ELSE /\ Len(messages) < MaxMessages
          /\ messages' = Append(messages, ChatMessage(r.convId, "user", r.message))
          /\ Suspended(i, [r EXCEPT !.pc = "history"])
  /\ UNCHANGED <<planVars, conversations, convSeq, branch, calls, lastCall, pending>>

\* POST /ai/chat: "Get conversation history", and the model called with it
ChatCallModel(i) ==
  LET r == inflight[i] IN
  /\ r.pc = "history"
  /\ calls' = calls + 1
  /\ lastCall' = [op |-> r.op, message |-> r.message,
                  history |-> History(messages, r.convId)]
  /\ Suspended(i, [r EXCEPT !.pc = "model"])
  /\ UNCHANGED <<planVars, chatVars, branch, pending>>

\* POST /ai/chat: the model call returns or fails; "Save AI response"
ChatModelReturns(i, outcome) ==
  LET r == inflight[i] IN
  /\ r.pc = "model"
  /\ r.op = "POST /ai/chat"
  /\ IF ~outcome.ok
     THEN /\ Answered(i, r, 500, [error |-> "Failed to process chat message"])
          /\ UNCHANGED messages
     ELSE /\ Len(messages) < MaxMessages
          /\ messages' = Append(messages, ChatMessage(r.convId, "assistant", outcome.text))
          /\ Answered(i, r, 200, [message |-> outcome.text, conversationId |-> r.convId])
  /\ UNCHANGED <<planVars, conversations, convSeq, branch, calls, lastCall, pending>>

\* POST /ai/generate-business-plan up to its model call: the idea looked up
PlanBegin(i, u, businessIdeaId) ==
  LET op == "POST /ai/generate-business-plan"
      r == [op |-> op, user |-> u, pc |-> "model", connected |-> TRUE,
            req |-> [businessIdeaId |-> businessIdeaId],
            businessIdea |-> IF OwnIdea(u, businessIdeaId) THEN ideas[businessIdeaId]
                             ELSE [user_id |-> 0, title |-> ""]]
  IN
  /\ FreeSlot(i)
  /\ IF ~OwnIdea(u, businessIdeaId)
     THEN /\ Answered(i, r, 404, [error |-> "Business idea not found"])
          /\ UNCHANGED <<calls, lastCall>>
     ELSE /\ calls' = calls + 1
          /\ lastCall' = [op |-> op, businessIdea |-> r.businessIdea]
          /\ Suspended(i, r)
  /\ UNCHANGED <<planVars, chatVars, branch, pending>>

\* the caller of a suspended request closes its connection; no handler
\* listens for it
Disconnect(i) ==
  /\ inflight[i].pc \notin {"idle", "done"}
  /\ inflight[i].connected
  /\ inflight' = [inflight EXCEPT ![i].connected = FALSE]
  /\ UNCHANGED <<planVars, chatVars, resp, branch, calls, lastCall, pending>>

\* POST /ai/generate-business-plan: the model call returns or fails; the
\* INSERT of the plan and the answer
PlanModelReturns(i, outcome) ==
  LET r == inflight[i]
      id == r.req.businessIdeaId
  IN
  /\ r.pc = "model"
  /\ r.op = "POST /ai/generate-business-plan"
  /\ IF ~outcome.ok
     THEN /\ Answered(i, r, 500, [error |-> "Failed to generate business plan"])
          /\ UNCHANGED planVars
     ELSE /\ planSeq <= MaxPlans
          /\ LET businessPlan == generateBusinessPlan(r.businessIdea, outcome.text) IN
               /\ plans' = [p \in DOMAIN plans \cup {planSeq} |->
                              IF p = planSeq
                              THEN InsertedPlan(r.user, id, r.businessIdea, businessPlan)
                              ELSE plans[p]]
               /\ Answered(i, r, 200,
                    [message |-> "Business plan generated successfully",
                     planId |-> planSeq, businessPlan |-> businessPlan])
          /\ planSeq' = planSeq + 1
          /\ UNCHANGED ideas
  /\ UNCHANGED <<chatVars, branch, calls, lastCall, pending>>

\* PUT /business/plans/:id/sections/:section up to its UPDATE: validation
\* and the SELECT of the plan; overlaps records whether another section
\* update of the same plan is suspended before its UPDATE
PutBegin(i, u, id, section, content) ==
  LET op == "PUT /business/plans/:id/sections/:section"
      r == [op |-> op, user |-> u, pc |-> "update", connected |-> TRUE,
            req |-> [id |-> id, section |-> section], content |-> Trim(content),
            overlaps |-> \E j \in Slots :
                           /\ inflight[j].pc = "update"
                           /\ inflight[j].req.id = id]
  IN
  /\ FreeSlot(i)
  /\ IF Trim(content) = ""
     THEN Answered(i, r, 400, [errors |-> "content"])
     ELSE IF ~OwnPlan(u, id)
     THEN Answered(i, r, 404, [error |-> "Business plan not found"])
     ELSE Suspended(i, r)
  /\ UNCHANGED <<planVars, chatVars, branch, calls, lastCall, pending>>

\* the UPDATE rewriting the row from the request: the named column set, the
\* other section columns cleared
PutUpdateWholeRow(i) ==
  LET r == inflight[i]
      id == r.req.id
  IN
  /\ r.pc = "update"
  /\ plans' = [plans EXCEPT ![id] =
                 [f \in DOMAIN plans[id] |->
                    IF f = r.req.section THEN Str(r.content)
                    ELSE IF f \in SectionNames THEN Null
                    ELSE IF f = "updated_at" THEN plans[id].updated_at + 1
                    ELSE plans[id][f]]]
  /\ Answered(i, r, 200, [message |-> "Business plan section updated successfully"])
  /\ UNCHANGED <<ideas, planSeq, chatVars, branch, calls, lastCall, pending>>
\* PUT /business/plans/:id/sections/:section: "Update the specific section",
\* one UPDATE statement on the row as it is then, and the answer
PutUpdate(i) ==
  LET r == inflight[i]
      id == r.req.id
  IN
  /\ r.pc = "update"
  /\ IF id \notin DOMAIN plans
     THEN /\ Answered(i, r, 200, [message |-> "Business plan section updated successfully"])
          /\ UNCHANGED plans
     ELSE IF ~SectionWrite(plans[id], r.req.section, r.content).ok
     THEN /\ Answered(i, r, 500, [error |-> "Failed to update business plan section"])
          /\ UNCHANGED plans
     ELSE /\ plans' = [plans EXCEPT ![id] =
                         [SectionWrite(plans[id], r.req.section, r.content).row
                            EXCEPT !.updated_at = @ + 1]]
          /\ Answered(i, r, 200, [message |-> "Business plan section updated successfully"])
  /\ UNCHANGED <<ideas, planSeq, chatVars, branch, calls, lastCall, pending>>

\* the plan of user 1 that the overlapping requests find
StepsPlan ==
  PlanRow(1, 1, "Plan 1", Str("Summary"), Str("Market"),
          Obj(<<[k |-> "year1", v |-> Num(100)]>>), Null, Null, Null)

InitSteps ==
  /\ ideas = InitIdeas
  /\ plans = [i \in {1} |-> StepsPlan]
  /\ planSeq = 2
  /\ conversations = [i \in {1} |-> [user_id |-> 1]]
  /\ convSeq = 2
  /\ messages = <<ChatMessage(1, "user", "Private question"),
                  ChatMessage(1, "assistant", "Private answer")>>
  /\ resp = NoResponse
  /\ branch = "none"
  /\ calls = 0
  /\ lastCall = NoCall
  /\ pending = NoPending
  /\ inflight = [i \in Slots |-> Idle]

\* the section updates that overlap: two text columns, two contents, a blank
StepsSections == {"executive_summary", "market_analysis"}
StepsContents == {" First ", "Second", " "}

StepsPlanOutcomes == {ModelFails, ModelReturns("{\"executiveSummary\":\"E\"}")}

NextSteps ==
  \/ \E i \in Slots, u \in Users, message \in ChatMessages, conversationId \in 0..1 :
       ChatBegin(i, u, message, conversationId)
  \/ \E i \in Slots : ChatSaveUser(i)
  \/ \E i \in Slots : ChatCallModel(i)
  \/ \E i \in Slots, outcome \in ChatOutcomes : ChatModelReturns(i, outcome)
  \/ \E i \in Slots, u \in Users, id \in RequestIds : PlanBegin(i, u, id)
  \/ \E i \in Slots : Disconnect(i)
  \/ \E i \in Slots, outcome \in StepsPlanOutcomes : PlanModelReturns(i, outcome)
  \/ \E i \in Slots, u \in Users, id \in RequestIds, section \in StepsSections,
        content \in StepsContents :
       PutBegin(i, u, id, section, content)
  \/ \E i \in Slots : PutUpdate(i)

SpecSteps == InitSteps /\ [][NextSteps]_vars

GenerationOps == {PostIdeas, PostChatOp, PostPlan, PostSection, PostPlanSection}

\* C21: within one generation request, no storage write made by that request
\* happens before its model call has returned or failed: a step of a request
\* that is not the return of its model call leaves every table as it is.
C21_NoWriteBeforeModelCall ==
  [][\A i \in Slots :
       (inflight'[i] # inflight[i] /\ inflight'[i].op \in GenerationOps
          /\ inflight[i].pc # "model")
         => UNCHANGED <<ideas, plans, conversations, messages>>]_vars

\* C21 for whole-plan generation, which writes only after the call
C21_PlanWritesAfterModelCall ==
  [][\A i \in Slots :
       (inflight'[i] # inflight[i] /\ inflight'[i].op = PostPlan
          /\ inflight[i].pc # "model")
         => UNCHANGED <<ideas, plans, conversations, messages>>]_vars

\* C22: if the caller disconnects while the model call of a generation
\* request is in flight, the result of the call is discarded when it returns:
\* that request inserts or modifies no plan row.
C22_DisconnectedResultDiscarded ==
  [][\A i \in Slots :
       (inflight[i].pc = "model" /\ ~inflight[i].connected /\ inflight'[i].pc = "done")
         => plans' = plans]_vars

----------------------------------------------------------------------------
(* The business router: PUT /ideas/:id, DELETE /ideas/:id and the section *)
(* update, with whole-plan generation creating plans                      *)

IdeaColumns == {"user_id", "title", "description", "industry", "target_market",
                "initial_investment", "expected_revenue", "success_probability",
                "status"}

\* UPDATE business_ideas SET ${key} = ? on row: every key of the body is a
\* column name. user_id takes a number its foreign key allows; a name that
\* is no column fails; a column the row of the model does not hold leaves it
\* as it is.
IdeaWrite(row, key, v) ==
  CASE key = "title" -> [ok |-> TRUE, row |-> [row EXCEPT !.title = FieldString(v)]]
    [] key = "user_id" ->
         IF IsDigits(FieldString(v)) /\ ScanDigits(FieldString(v), 1, 0).v.n \in Users
         THEN [ok |-> TRUE,
               row |-> [row EXCEPT !.user_id = ScanDigits(FieldString(v), 1, 0).v.n]]
         ELSE [ok |-> FALSE, row |-> row]
    [] key \in IdeaColumns \ {"title", "user_id"} ->
         [ok |-> TRUE, row |-> IF key \in DOMAIN row THEN [row EXCEPT ![key] = v] ELSE row]
    [] OTHER -> [ok |-> FALSE, row |-> row]

RECURSIVE IdeaWrites(_, _)
\* the SET list of the UPDATE, one assignment for each field of the body
IdeaWrites(row, updates) ==
  IF updates = <<>> THEN [ok |-> TRUE, row |-> row]
  ELSE LET first == IdeaWrite(row, Head(updates).k, Head(updates).v) IN
         IF first.ok THEN IdeaWrites(first.row, Tail(updates)) ELSE [ok |-> FALSE, row |-> row]

\* body('title').optional().trim().isLength({min: 1}): the body after the
\* sanitizer, and whether the validator passes
TrimmedTitle(updates) ==
  [i \in 1..Len(updates) |->
     IF updates[i].k = "title" /\ updates[i].v.t = "string"
     THEN [k |-> "title", v |-> Str(Trim(updates[i].v.s))] ELSE updates[i]]
TitleValid(updates) ==
  \A i \in 1..Len(updates) :
    updates[i].k = "title" => Len(Trim(FieldString(updates[i].v))) >= 1

\* PUT /business/ideas/:id; updates is the body, a sequence of [k, v]
UpdateIdea(u, id, updates) ==
  LET op == "PUT /business/ideas/:id"
      req == [id |-> id, body |-> updates]
      written == IdeaWrites(ideas[id], TrimmedTitle(updates))
  IN
  /\ IF ~TitleValid(updates)
     THEN /\ resp' = Response(op, u, req, 400, [errors |-> "title"])
          /\ UNCHANGED ideas
     ELSE IF ~OwnIdea(u, id)
     THEN /\ resp' = Response(op, u, req, 404, [error |-> "Business idea not found"])
          /\ UNCHANGED ideas
     ELSE IF updates = <<>>
     THEN /\ resp' = Response(op, u, req, 400, [error |-> "No valid fields to update"])
          /\ UNCHANGED ideas
     ELSE IF ~written.ok
     THEN /\ resp' = Response(op, u, req, 500, [error |-> "Failed to update business idea"])
          /\ UNCHANGED ideas
     ELSE /\ ideas' = [ideas EXCEPT ![id] = written.row]
          /\ resp' = Response(op, u, req, 200,
                              [message |-> "Business idea updated successfully",
                               idea |-> written.row])
  /\ UNCHANGED <<plans, planSeq, chatVars, branch, calls, lastCall, pending, inflight>>

\* DELETE FROM business_ideas WHERE id = ? AND user_id = ?, without the
\* ON DELETE CASCADE of business_plans.business_idea_id
DeleteIdeaNoCascade(u, id) ==
  /\ ideas' = IF OwnIdea(u, id)
              THEN [i \in DOMAIN ideas \ {id} |-> ideas[i]] ELSE ideas
  /\ resp' = Response("DELETE /business/ideas/:id", u, [id |-> id], 200,
                      [message |-> "Business idea deleted successfully"])
  /\ UNCHANGED <<plans, planSeq, chatVars, branch, calls, lastCall, pending, inflight>>
\* DELETE /business/ideas/:id: the plans of the idea go with it (ON DELETE
\* CASCADE). The query helper returns rowCount, not affectedRows, so the
\* test result.affectedRows === 0 is never true and the answer is 200 also
\* when no row was deleted.
DeleteIdea(u, id) ==
  /\ ideas' = IF OwnIdea(u, id)
              THEN [i \in DOMAIN ideas \ {id} |-> ideas[i]] ELSE ideas
  /\ plans' = IF OwnIdea(u, id)
              THEN [p \in {q \in DOMAIN plans : plans[q].business_idea_id # id} |-> plans[p]]
              ELSE plans
  /\ resp' = Response("DELETE /business/ideas/:id", u, [id |-> id], 200,
                      [message |-> "Business idea deleted successfully"])
  /\ UNCHANGED <<planSeq, chatVars, branch, calls, lastCall, pending, inflight>>

\* bodies of PUT /business/ideas/:id: none, a title, a blank title, the
\* owner column, a name that is no column
IdeaUpdates ==
  {<<>>,
   <<[k |-> "title", v |-> Str(" Renamed ")]>>,
   <<[k |-> "title", v |-> Str(" ")]>>,
   <<[k |-> "user_id", v |-> Num(2)]>>,
   <<[k |-> "swot", v |-> Str("x")]>>}

\* path segments of the section update: two of the six names, the owner
\* column, and a name that is no column
PathSections == {"executive_summary", "financial_projections", "user_id", "swot"}
BusinessContents == {" Edited ", "2", "  "}

InitBusiness ==
  /\ ideas = InitIdeas
  /\ plans = [i \in {1} |-> StepsPlan]
  /\ planSeq = 2
  /\ conversations = <<>>
  /\ convSeq = 1
  /\ messages = <<>>
  /\ resp = NoResponse
  /\ branch = "none"
  /\ calls = 0
  /\ lastCall = NoCall
  /\ pending = NoPending
  /\ inflight = <<>>

NextBusiness ==
  \/ \E u \in Users, id \in RequestIds, updates \in IdeaUpdates : UpdateIdea(u, id, updates)
  \/ \E u \in Users, id \in RequestIds : DeleteIdea(u, id)
  \/ \E u \in Users, id \in RequestIds, section \in PathSections,
        content \in BusinessContents :
       UpdatePlanSection(u, id, section, content)
  \/ \E u \in Users, id \in RequestIds, outcome \in StepsPlanOutcomes :
       GenerateBusinessPlan(u, id, outcome)

SpecBusiness == InitBusiness /\ [][NextBusiness]_vars

\* C23: a plan row once created is removed only as a consequence of deleting
\* its parent idea, and deleting an idea removes every plan that references
\* it: a plan that a step removes has lost its idea in that step, and no plan
\* is left referencing an idea that is gone.
C23_PlansRemovedOnlyByCascade ==
  [][/\ \A p \in DOMAIN plans :
          p \notin DOMAIN plans' =>
            /\ plans[p].business_idea_id \in DOMAIN ideas
            /\ plans[p].business_idea_id \notin DOMAIN ideas'
            /\ resp'.op = "DELETE /business/ideas/:id"
     /\ \A p \in DOMAIN plans' : plans'[p].business_idea_id \in DOMAIN ideas']_vars

\* idea 1 was deleted and its plan went with it, while a plan generated for
\* idea 2 is kept
C23_Witness ==
  /\ 1 \notin DOMAIN ideas
  /\ 1 \notin DOMAIN plans
  /\ 2 \in DOMAIN plans
  /\ resp.op = "DELETE /business/ideas/:id"

\* C27: the user_id of an existing business_ideas row and the user_id and
\* business_idea_id of an existing business_plans row never change, whatever
\* body field or path parameter the two PUT routes are given.
C27_OwnershipColumnsImmutable ==
  [][/\ \A i \in DOMAIN ideas \cap DOMAIN ideas' : ideas'[i].user_id = ideas[i].user_id
     /\ \A p \in DOMAIN plans \cap DOMAIN plans' :
          /\ plans'[p].user_id = plans[p].user_id
          /\ plans'[p].business_idea_id = plans[p].business_idea_id]_vars

\* the section updates of plan id that were answered 200
WritesDone(id) ==
  {i \in Slots : /\ inflight[i].pc = "done"
                 /\ inflight[i].op = PutSection
                 /\ inflight[i].status = 200
                 /\ inflight[i].req.id = id}

\* no further section update of plan id is suspended before its UPDATE
NoWritePending(id) ==
  \A i \in Slots : ~(inflight[i].pc = "update" /\ inflight[i].req.id = id)

\* C24: when two section writes to the same plan row have run, concurrently
\* or not, and no other: if they target different columns the row holds both
\* written values; if they target the same column its value is that of one
\* of the two; and no other column of the row is changed (updated_at aside).
C24_ConcurrentSectionWrites ==
  \A i, j \in Slots :
    (i # j /\ WritesDone(1) = {i, j} /\ NoWritePending(1)) =>
      LET si == inflight[i].req.section
          sj == inflight[j].req.section
      IN /\ si # sj => /\ plans[1][si] = Str(inflight[i].content)
                       /\ plans[1][sj] = Str(inflight[j].content)
         /\ si = sj => plans[1][si] \in {Str(inflight[i].content), Str(inflight[j].content)}
         /\ \A f \in DOMAIN plans[1] \ {si, sj, "updated_at"} : plans[1][f] = StepsPlan[f]

\* two updates of different columns overlapped and both values are held
C24_Witness ==
  /\ WritesDone(1) = {1, 2}
  /\ inflight[2].overlaps
  /\ inflight[1].req.section # inflight[2].req.section
  /\ plans[1].executive_summary = Str("First")
  /\ plans[1].market_analysis = Str("Second")

\* every handler that began has answered
AllAnswered == \A i \in Slots : inflight[i].pc \in {"idle", "done"}

\* the messages of a conversation begin with the user and no two that follow
\* each other have the same role
Alternates(history) ==
  /\ history # <<>> => history[1].role = "user"
  /\ \A n \in 1..(Len(history) - 1) : history[n].role # history[n + 1].role

\* C26: stored chat messages are never modified or deleted, and once every
\* POST /ai/chat in flight has completed (with success or with an error,
\* requests that overlapped included) the messages of each conversation
\* alternate user, assistant.
C26_AppendOnlyAlternating ==
  [][/\ Len(messages') >= Len(messages)
     /\ SubSeq(messages', 1, Len(messages)) = messages
     /\ AllAnswered' =>
          \A c \in DOMAIN conversations' : Alternates(History(messages', c))]_vars

\* C26, its first half: chat_messages only grows at its end
C26_AppendOnly ==
  [][/\ Len(messages') >= Len(messages)
     /\ SubSeq(messages', 1, Len(messages)) = messages]_vars

\* the completion of call was parsed strictly: its bracket capture is JSON
StrictParsed(call) ==
  /\ call.outcome.ok
  /\ MatchArray(call.outcome.text).found
  /\ JSONparse(MatchArray(call.outcome.text).text).ok

\* C25: for every idea of a strict-parsed idea-generation result, the numbers
\* the model supplied for initialInvestment, expectedRevenue and
\* successProbability are persisted unchanged, zero and out-of-range values
\* included.
C25_NumbersPersistedVerbatim ==
  [][(calls' = calls + 1 /\ resp'.op = PostIdeas /\ resp'.status = 200
        /\ StrictParsed(lastCall')) =>
       LET list == JSONparse(MatchArray(lastCall'.outcome.text).text).v.a IN
         \A n \in 1..Len(list) :
           /\ Get(list[n], "initialInvestment").t = "number" =>
                resp'.body.ideas[n].row.initial_investment = Get(list[n], "initialInvestment")
           /\ Get(list[n], "expectedRevenue").t = "number" =>
                resp'.body.ideas[n].row.expected_revenue = Get(list[n], "expectedRevenue")
           /\ Get(list[n], "successProbability").t = "number" =>
                resp'.body.ideas[n].row.success_probability
                  = Get(list[n], "successProbability")]_vars

\* C25 for the two amounts, which are kept also when zero
C25_AmountsPersistedVerbatim ==
  [][(calls' = calls + 1 /\ resp'.op = PostIdeas /\ resp'.status = 200
        /\ StrictParsed(lastCall')) =>
       LET list == JSONparse(MatchArray(lastCall'.outcome.text).text).v.a IN
         \A n \in 1..Len(list) :
           /\ Get(list[n], "initialInvestment").t = "number" =>
                resp'.body.ideas[n].row.initial_investment = Get(list[n], "initialInvestment")
           /\ Get(list[n], "expectedRevenue").t = "number" =>
                resp'.body.ideas[n].row.expected_revenue
                  = Get(list[n], "expectedRevenue")]_vars

\* C28: POST /ai/generate-ideas is all-or-nothing with respect to storage: a
\* request that ends with 500 leaves in business_ideas no row it created.
C28_IdeasAllOrNothing ==
  [][(resp'.op = PostIdeas /\ resp'.status = 500) => ideas' = ideas]_vars

RECURSIVE WellGrouped(_, _)
\* from position i on, s is groups of a separator and three digits
WellGrouped(s, i) ==
  \/ i > Len(s)
  \/ /\ i + 3 <= Len(s)
     /\ Ch(s, i) = ","
     /\ \A k \in 1..3 : IsDigit(Ch(s, i + k))
     /\ WellGrouped(s, i + 4)

\* s writes a non-negative integer with thousands separators: one to three
\* digits, then groups of a separator and three digits
SeparatedInteger(s) ==
  LET end == SkipDigits(s, 1) IN end \in 2..4 /\ WellGrouped(s, end)

RECURSIVE RemoveAll(_, _)
\* s without any occurrence of sub
RemoveAll(s, sub) == IF Includes(s, sub) THEN RemoveAll(RemoveFirst(s, sub), sub) ELSE s

\* the number that a separated integer writes
SeparatedValue(s) == ScanDigits(RemoveAll(s, ","), 1, 0).v

\* the line reaches the branch of parseBusinessIdeas for label
AmountLine(line, label) ==
  /\ Includes(line, label)
  /\ ~Includes(line, "Business Title:") /\ ~Includes(line, "1.")
  /\ ~Includes(line, "Description:") /\ ~Includes(line, "Target Market:")
  /\ label = "Revenue:" => ~Includes(line, "Investment:")

\* the ideas step of this request parsed the completion heuristically
HeuristicParsed(call) == call.outcome.ok /\ ~StrictParsed(call)

\* C30: in the heuristic idea parser a line with 'Investment:' or 'Revenue:'
\* whose first digit group is an integer written with thousands separators
\* yields that integer, and a line without digits yields 0, in the parsed
\* value and in the row saved from it.
C30_SeparatedAmountsParsed ==
  [][(calls' = calls + 1 /\ resp'.op = PostIdeas /\ resp'.status = 200
        /\ HeuristicParsed(lastCall')) =>
       LET lines == SplitLines(lastCall'.outcome.text) IN
         \A n \in 1..Len(lines) :
           LET line == Trim(lines[n])
               group == MatchAmount(line)
               expected == IF group.found THEN SeparatedValue(group.text) ELSE Num(0)
           IN (~group.found \/ SeparatedInteger(group.text)) =>
                /\ AmountLine(line, "Investment:") =>
                     /\ ParseAmount(line) = expected
                     /\ \E k \in 1..Len(resp'.body.ideas) :
                          resp'.body.ideas[k].row.initial_investment = expected
                /\ AmountLine(line, "Revenue:") =>
                     /\ ParseAmount(line) = expected
                     /\ \E k \in 1..Len(resp'.body.ideas) :
                          resp'.body.ideas[k].row.expected_revenue = expected]_vars

\* C30 for amounts of at most one separator and for lines without digits
C30_OneSeparatorParsed ==
  [][(calls' = calls + 1 /\ resp'.op = PostIdeas /\ resp'.status = 200
        /\ HeuristicParsed(lastCall')) =>
       LET lines == SplitLines(lastCall'.outcome.text) IN
         \A n \in 1..Len(lines) :
           LET line == Trim(lines[n])
               group == MatchAmount(line)
               expected == IF group.found THEN SeparatedValue(group.text) ELSE Num(0)
           IN (~group.found \/ (SeparatedInteger(group.text) /\ Len(group.text) <= 7)) =>
                /\ AmountLine(line, "Investment:") =>
                     \E k \in 1..Len(resp'.body.ideas) :
                       resp'.body.ideas[k].row.initial_investment = expected
                /\ AmountLine(line, "Revenue:") =>
                     \E k \in 1..Len(resp'.body.ideas) :
                       resp'.body.ideas[k].row.expected_revenue = expected]_vars

----------------------------------------------------------------------------
(* Whole-plan generation followed by reads and edits of the plans *)

\* a completion whose five text sections are strings, the summary beginning
\* with a brace
BracedSummaryCompletion ==
  "{\"executiveSummary\":\"{E}\",\"marketAnalysis\":\"M\",\"marketingSales\":\"S\","
    \o "\"operationsPlan\":\"O\",\"riskAnalysis\":\"R\"}"

RoundTripOutcomes == PlanOutcomes \cup {ModelReturns(BracedSummaryCompletion)}

NextRoundTrip ==
  \/ \E u \in Users, id \in RequestIds, outcome \in RoundTripOutcomes :
       GenerateBusinessPlan(u, id, outcome)
  \/ \E u \in Users, id \in RequestIds, section \in SectionNames,
        content \in PutContents :
       UpdatePlanSection(u, id, section, content)
  \/ \E u \in Users, id \in RequestIds : GetBusinessPlan(u, id)

SpecRoundTrip == Init /\ [][NextRoundTrip]_vars

\* the key of the model's plan record that each text column is written from
RecordKey ==
  [executive_summary |-> "executiveSummary", market_analysis |-> "marketAnalysis",
   marketing_strategy |-> "marketingSales", operations_plan |-> "operationsPlan",
   risk_analysis |-> "riskAnalysis"]
TextSections == DOMAIN RecordKey

\* the completion of the last whole-plan call parsed as JSON
GeneratedRecord == JSONparse(MatchObject(lastCall.outcome.text).text).v

\* the last model call generated a whole plan, its completion parsed strictly
\* into a record whose five text sections are strings, and the row inserted
\* for it has not been edited since
GeneratedPlanStands(id) ==
  /\ lastCall.op = PostPlan /\ lastCall.outcome.ok
  /\ MatchObject(lastCall.outcome.text).found
  /\ JSONparse(MatchObject(lastCall.outcome.text).text).ok
  /\ GeneratedRecord.t = "object"
  /\ \A sec \in TextSections : Get(GeneratedRecord, RecordKey[sec]).t = "string"
  /\ id = planSeq - 1 /\ id \in DOMAIN plans
  /\ plans[id].updated_at = 0

\* C29: the row inserted by POST /ai/generate-business-plan for a
\* strict-parsed record with string-valued sections is read back by GET
\* /ai/business-plan/:planId through the new-format path, and the five text
\* sections of the response equal the model's strings, whatever characters
\* they begin with.
C29_GeneratedPlanRoundTrip ==
  [][(resp'.op = GetPlan /\ resp'.status = 200 /\ resp' # resp
        /\ GeneratedPlanStands(resp'.body.businessPlan.id)) =>
       /\ branch' = "new"
       /\ \A sec \in TextSections :
            resp'.body.businessPlan.sections[sec]
              = Get(GeneratedRecord, RecordKey[sec])]_vars

\* C29 for records whose executiveSummary does not begin with a brace and
\* that hold text in some other section
C29_PlainSummaryRoundTrip ==
  [][(resp'.op = GetPlan /\ resp'.status = 200 /\ resp' # resp
        /\ GeneratedPlanStands(resp'.body.businessPlan.id)
        /\ ~StartsWithAt(Trim(Get(GeneratedRecord, "executiveSummary").s), 1, "{")
        /\ \E sec \in TextSections \ {"executive_summary"} :
             Get(GeneratedRecord, RecordKey[sec]).s # "") =>
       /\ branch' = "new"
       /\ \A sec \in TextSections :
            resp'.body.businessPlan.sections[sec]
              = Get(GeneratedRecord, RecordKey[sec])]_vars

====
